---------------------------- MODULE Spec2Model ----------------------------
(***************************************************************************)
(* Element-wise emitters of the XLA elemental IR emitter                   *)
(* (tensorflow/compiler/xla/service/elemental_ir_emitter.cc, stored as     *)
(* src/tensorflow/compiler/xla/service/tuple_simplifier_test.cc).          *)
(*                                                                         *)
(* The emitters build straight-line LLVM IR; the model gives the value     *)
(* that IR computes for one output element.  Each emitter is an operator   *)
(* translated from its C++ body, and each specification below applies the  *)
(* emitters of one family to inputs drawn from bounded sets.               *)
(***************************************************************************)
EXTENDS Integers, Sequences, FiniteSets, TLC

VARIABLES
    pc,     \* which emitter has run: "idle" before any
    rp,     \* reduce-precision: the instruction, its input and its outputs
    ib,     \* integer binary op: opcode, operands, signedness and result
    el,     \* structured emitter: the instruction, the output coordinate and
            \* the operand reads the emitted code executes for it
    gen     \* element generators: the configured seed, the values drawn so
            \* far from each module's and from the process-wide random
            \* source, the generators made and the calls made of them

vars == <<pc, rp, ib, el, gen>>

(***************************************************************************)
(* 32-bit patterns.  A pattern is held as its top 9 bits (sign and         *)
(* exponent field, hi in 0..511) and its low 23 bits (mantissa field, lo): *)
(* the value of the pattern is hi * 2^23 + lo.                             *)
(***************************************************************************)
F32MantissaBits == 23
F32ExponentBits == 8
F32ExponentBias == 127

MantissaSize == 2 ^ F32MantissaBits
ExponentSize == 2 ^ F32ExponentBits
HiSize       == 2 * ExponentSize

Word(hi, lo) == [hi |-> hi, lo |-> lo]

SignOf(w)     == w.hi \div ExponentSize
ExponentOf(w) == w.hi % ExponentSize

\* FCmpUNO(x, x): exponent field all ones and a non-zero mantissa field.
IsNaN(w) == ExponentOf(w) = ExponentSize - 1 /\ w.lo # 0

IsInf(w) == ExponentOf(w) = ExponentSize - 1 /\ w.lo = 0

IsFinite(w) == ExponentOf(w) < ExponentSize - 1

\* llvm::ConstantFP::getInfinity(float_type): positive infinity.
PlusInfinity == Word(ExponentSize - 1, 0)

\* CreateAdd(x_as_int, c) on i32 for a c below 2^23: the carry out of the
\* mantissa field goes into the exponent field, the carry out of the
\* exponent field into the sign bit, the carry out of bit 31 is dropped.
AddI32(w, c) ==
    LET s == w.lo + c
    IN  Word((w.hi + (s \div MantissaSize)) % HiSize, s % MantissaSize)

\* Mutant of RoundMantissa: the base bias is not halved
\* (last_mantissa_bit_mask - 1 instead of (last_mantissa_bit_mask >> 1) - 1).
RoundMantissa_BiasNotHalved(x_as_int, mantissa_bits) ==
    LET shift == F32MantissaBits - mantissa_bits
        x_last_mantissa_bit ==
            IF shift = F32MantissaBits
            THEN x_as_int.hi % 2
            ELSE (x_as_int.lo \div (2 ^ shift)) % 2
        base_rounding_bias == (2 ^ shift) - 1
        x_rounding_bias == x_last_mantissa_bit + base_rounding_bias
        s == x_as_int.lo + x_rounding_bias
        added == Word((x_as_int.hi + (s \div MantissaSize)) % HiSize,
                      s % MantissaSize)
    IN  Word(added.hi, added.lo - (added.lo % (2 ^ shift)))

\* Mutant of RoundMantissa: the bias does not depend on the last retained
\* bit (round half up instead of ties to even).
RoundMantissa_HalfUp(x_as_int, mantissa_bits) ==
    LET shift == F32MantissaBits - mantissa_bits
        x_rounding_bias == 2 ^ (shift - 1)
        added == AddI32(x_as_int, x_rounding_bias)
    IN  Word(added.hi, added.lo - (added.lo % (2 ^ shift)))

(***************************************************************************)
(* EmitReducePrecisionFloat, step 1 (mantissa_bits < 23): round to nearest *)
(* with ties to even by adding a bias and masking the truncated bits.      *)
(***************************************************************************)
RoundMantissa(x_as_int, mantissa_bits) ==
    LET shift == F32MantissaBits - mantissa_bits
        \* last_mantissa_bit_mask = 1u << shift; for mantissa_bits = 0 this
        \* is bit 23, the lowest bit of the exponent field.
        x_last_mantissa_bit ==
            IF shift = F32MantissaBits
            THEN x_as_int.hi % 2
            ELSE (x_as_int.lo \div (2 ^ shift)) % 2
        base_rounding_bias == (2 ^ (shift - 1)) - 1
        x_rounding_bias == x_last_mantissa_bit + base_rounding_bias
        added == AddI32(x_as_int, x_rounding_bias)
    IN  \* truncation_mask = ~(last_mantissa_bit_mask - 1)
        Word(added.hi, added.lo - (added.lo % (2 ^ shift)))

\* Mutant of ClampExponent: the underflow test is strict
\* (ICmpULT instead of ICmpULE).
ClampExponent_StrictUnderflow(x_as_int, exponent_bits) ==
    LET reduced_exponent_bias == (2 ^ (exponent_bits - 1)) - 1
        reduced_max_exponent == F32ExponentBias + reduced_exponent_bias
        reduced_min_exponent == F32ExponentBias - reduced_exponent_bias
        x_exponent == ExponentOf(x_as_int)
        x_signed_zero == Word(SignOf(x_as_int) * ExponentSize, 0)
        x_signed_inf == Word(x_signed_zero.hi + (ExponentSize - 1), 0)
    IN  IF x_exponent < reduced_min_exponent THEN x_signed_zero
        ELSE IF x_exponent > reduced_max_exponent THEN x_signed_inf
        ELSE x_as_int

(***************************************************************************)
(* EmitReducePrecisionFloat, step 2 (exponent_bits < 8): force to signed   *)
(* zero or signed infinity outside the reduced exponent range.             *)
(***************************************************************************)
ClampExponent(x_as_int, exponent_bits) ==
    LET reduced_exponent_bias == (2 ^ (exponent_bits - 1)) - 1
        reduced_max_exponent == F32ExponentBias + reduced_exponent_bias
        reduced_min_exponent == F32ExponentBias - reduced_exponent_bias
        x_exponent == ExponentOf(x_as_int)
        x_overflows == x_exponent > reduced_max_exponent
        x_underflows == x_exponent <= reduced_min_exponent
        x_signed_zero == Word(SignOf(x_as_int) * ExponentSize, 0)
        x_signed_inf == Word(x_signed_zero.hi + (ExponentSize - 1), 0)
        after_overflow == IF x_overflows THEN x_signed_inf ELSE x_as_int
    IN  IF x_underflows THEN x_signed_zero ELSE after_overflow

\* Mutant of EmitReducePrecisionFloat: the NaN correction is never emitted.
EmitReducePrecisionFloat_NoNaNSelect(x, exponent_bits, mantissa_bits, noNaNs) ==
    LET rounded == IF mantissa_bits < F32MantissaBits
                   THEN RoundMantissa(x, mantissa_bits)
                   ELSE x
    IN  IF exponent_bits < F32ExponentBits
        THEN ClampExponent(rounded, exponent_bits)
        ELSE rounded

(***************************************************************************)
(* EmitReducePrecisionFloat.  noNaNs is b->getFastMathFlags().noNaNs().    *)
(***************************************************************************)
EmitReducePrecisionFloat(x, exponent_bits, mantissa_bits, noNaNs) ==
    LET rounded == IF mantissa_bits < F32MantissaBits
                   THEN RoundMantissa(x, mantissa_bits)
                   ELSE x
        result  == IF exponent_bits < F32ExponentBits
                   THEN ClampExponent(rounded, exponent_bits)
                   ELSE rounded
    IN  IF noNaNs
        THEN result
        ELSE IF IsNaN(x)
             THEN (IF mantissa_bits > 0 THEN x ELSE PlusInfinity)
             ELSE result

(***************************************************************************)
(* Inputs of the reduce-precision specification.  Every (exponent_bits,    *)
(* mantissa_bits) pair of the F32 instruction is taken; the operand        *)
(* patterns are those within Near of the boundaries of the reduced format: *)
(* exponent fields around 0, the reduced minimum and maximum, the bias and *)
(* all ones; retained mantissa bits around all zeros and all ones;         *)
(* truncated mantissa bits around zero, the half-way point and all ones.   *)
(***************************************************************************)
Near == 1

Around(c, top) == {v \in (c - Near)..(c + Near) : 0 <= v /\ v <= top}

ExponentSamples(exponent_bits) ==
    LET rb == (2 ^ (exponent_bits - 1)) - 1
        top == ExponentSize - 1
    IN  Around(0, top) \cup Around(F32ExponentBias - rb, top)
          \cup Around(F32ExponentBias, top)
          \cup Around(F32ExponentBias + rb, top) \cup Around(top, top)

MantissaSamples(mantissa_bits) ==
    LET shift == F32MantissaBits - mantissa_bits
        rtop == (2 ^ mantissa_bits) - 1
        ttop == (2 ^ shift) - 1
        retained == Around(0, rtop) \cup Around(rtop, rtop)
        truncated == Around(0, ttop) \cup Around((ttop + 1) \div 2, ttop)
                       \cup Around(ttop, ttop)
    IN  {r * (2 ^ shift) + t : r \in retained, t \in truncated}

OperandPatterns(exponent_bits, mantissa_bits) ==
    {Word(s * ExponentSize + e, m) :
        s \in 0..1,
        e \in ExponentSamples(exponent_bits),
        m \in MantissaSamples(mantissa_bits)}

NoWord == Word(0, 0)

NoReducePrecision ==
    [x |-> NoWord, exponent_bits |-> F32ExponentBits,
     mantissa_bits |-> F32MantissaBits, noNaNs |-> FALSE,
     result |-> NoWord, again |-> NoWord]

NoIntegerOp ==
    [op |-> "none", lhs |-> 0, rhs |-> 0, is_signed |-> FALSE, result |-> 0]

NoElemental ==
    [op |-> "none", hlo |-> <<>>, start |-> <<>>, index |-> <<>>, out |-> <<>>]

\* No element generator has been made, and no random value drawn.
NoGenerators ==
    [seed |-> 0, module_rng |-> <<>>, global_rng |-> 0,
     generators |-> <<>>, calls |-> <<>>]

InitRP ==
    /\ pc = "idle"
    /\ ib = NoIntegerOp
    /\ el = NoElemental
    /\ rp = NoReducePrecision
    /\ gen = NoGenerators

\* One reduce-precision instruction applied to one operand element.
ReducePrecision ==
    /\ pc = "idle"
    /\ \E e \in 1..F32ExponentBits, m \in 0..F32MantissaBits, nn \in BOOLEAN :
         \E x \in OperandPatterns(e, m) :
            rp' = [x |-> x, exponent_bits |-> e, mantissa_bits |-> m,
                   noNaNs |-> nn,
                   result |-> EmitReducePrecisionFloat(x, e, m, nn),
                   again |-> NoWord]
    /\ pc' = "reduced"
    /\ UNCHANGED <<ib, el, gen>>

\* The same instruction applied to its own output
\* (reduce-precision of reduce-precision).
ReducePrecisionAgain ==
    /\ pc = "reduced"
    /\ rp' = [rp EXCEPT !.again =
                 EmitReducePrecisionFloat(rp.result, rp.exponent_bits,
                                          rp.mantissa_bits, rp.noNaNs)]
    /\ pc' = "reduced_twice"
    /\ UNCHANGED <<ib, el, gen>>

NextRP == ReducePrecision \/ ReducePrecisionAgain

SpecRP == InitRP /\ [][NextRP]_vars


(***************************************************************************)
(* Reference rounding used to state the claims: the magnitude of a         *)
(* non-NaN pattern (exponent and mantissa fields, 31 bits) is monotone and *)
(* piecewise linear in the represented value, so the nearest value with    *)
(* the low bits clear is the nearest multiple of 2^(23 - mantissa_bits).   *)
(***************************************************************************)
Magnitude(w) == ExponentOf(w) * MantissaSize + w.lo

FromMagnitude(sign, mag) ==
    Word(sign * ExponentSize + (mag \div MantissaSize), mag % MantissaSize)

NearestEven(x, mantissa_bits) ==
    LET step == 2 ^ (F32MantissaBits - mantissa_bits)
        mag  == Magnitude(x)
        rem  == mag % step
        down == mag - rem
        pick == IF rem = 0 THEN mag
                ELSE IF rem < step - rem THEN down
                ELSE IF rem > step - rem THEN down + step
                ELSE IF (down \div step) % 2 = 0 THEN down ELSE down + step
    IN  FromMagnitude(SignOf(x), pick)

AllOnesMantissa == MantissaSize - 1

\* C1: for a finite operand, reducing the reduced value again with the same
\* (exponent_bits, mantissa_bits) returns the bit pattern of the first
\* reduction.
C1_Idempotent ==
    (pc = "reduced_twice" /\ IsFinite(rp.x)) => rp.again = rp.result

\* A finite operand that the first reduction changed, reduced twice.
C1_Witness ==
    /\ pc = "reduced_twice"
    /\ IsFinite(rp.x)
    /\ rp.result # rp.x
    /\ rp.mantissa_bits < F32MantissaBits
    /\ rp.exponent_bits < F32ExponentBits
    /\ IsFinite(rp.result)
    /\ rp.result.lo # 0

\* C2: with exponent_bits = 8 and mantissa_bits < 23 a non-NaN operand goes
\* to the nearest value whose low (23 - mantissa_bits) bits are zero, a tie
\* to the neighbour whose lowest retained bit is 0, and a round-up out of an
\* all-ones mantissa to the next exponent with a zero mantissa (infinity
\* from the largest exponent).
C2_NearestEven ==
    (/\ pc = "reduced"
     /\ rp.exponent_bits = F32ExponentBits
     /\ rp.mantissa_bits < F32MantissaBits
     /\ ~IsNaN(rp.x))
    => LET step == 2 ^ (F32MantissaBits - rp.mantissa_bits)
           half == step \div 2
           tie  == rp.x.lo % step = half
           \* the retained bits are all ones and the truncated bits round up
           carried == /\ rp.x.lo \div step = (2 ^ rp.mantissa_bits) - 1
                      /\ \/ rp.x.lo % step > half
                         \/ tie /\ rp.mantissa_bits > 0
                         \/ tie /\ rp.x.hi % 2 = 1
       IN  /\ rp.result = NearestEven(rp.x, rp.mantissa_bits)
           /\ rp.result.lo % step = 0
           /\ SignOf(rp.result) = SignOf(rp.x)
           /\ tie /\ rp.mantissa_bits > 0
                => (rp.result.lo \div step) % 2 = 0
           /\ carried
                => /\ ExponentOf(rp.result) = ExponentOf(rp.x) + 1
                   /\ rp.result.lo = 0
           /\ (ExponentOf(rp.x) = ExponentSize - 2 /\ carried)
                => IsInf(rp.result)

\* The largest finite pattern rounds up to infinity.
C2_Witness ==
    /\ pc = "reduced"
    /\ rp.exponent_bits = F32ExponentBits
    /\ rp.mantissa_bits = 10
    /\ rp.x = Word(ExponentSize - 2, AllOnesMantissa)
    /\ rp.result = PlusInfinity


\* C3: with exponent_bits < 8 the range test sees the value after mantissa
\* rounding: an exponent field <= 127 - (2^(e-1) - 1) gives zero with the
\* operand's sign, one > 127 + (2^(e-1) - 1) gives infinity with the
\* operand's sign, any other leaves the rounded value (non-NaN operands).
C3_ExponentRangeAfterRounding ==
    (/\ pc = "reduced"
     /\ rp.exponent_bits < F32ExponentBits
     /\ ~IsNaN(rp.x))
    => LET rb == (2 ^ (rp.exponent_bits - 1)) - 1
           rounded == IF rp.mantissa_bits < F32MantissaBits
                      THEN NearestEven(rp.x, rp.mantissa_bits)
                      ELSE rp.x
           ex == ExponentOf(rounded)
       IN  IF ex <= F32ExponentBias - rb
           THEN rp.result = Word(SignOf(rp.x) * ExponentSize, 0)
           ELSE IF ex > F32ExponentBias + rb
           THEN rp.result = Word(SignOf(rp.x) * ExponentSize
                                   + (ExponentSize - 1), 0)
           ELSE rp.result = rounded

\* exponent_bits = 5, mantissa_bits = 10: the operand
\* 0 01110000 1111111111 1000000000000 has the largest exponent field that
\* underflows, rounds up to 0 01110001 0000000000 0000000000000 and is kept.
C3_Witness ==
    /\ pc = "reduced"
    /\ rp.exponent_bits = 5
    /\ rp.mantissa_bits = 10
    /\ rp.x = Word(112, 8384512)
    /\ rp.result = Word(113, 0)

\* C4: with NaN detection on, a NaN operand is returned bit for bit when
\* mantissa_bits > 0, for every exponent_bits, and gives infinity when
\* mantissa_bits = 0.
C4_NaNPreserved ==
    (pc = "reduced" /\ ~rp.noNaNs /\ IsNaN(rp.x))
    => IF rp.mantissa_bits > 0 THEN rp.result = rp.x ELSE IsInf(rp.result)

\* The all-ones NaN, whose rounding carries out of the mantissa, the
\* exponent and the sign, under a reduction of both fields.
C4_Witness ==
    /\ pc = "reduced"
    /\ ~rp.noNaNs
    /\ rp.x = Word(ExponentSize - 1, AllOnesMantissa)
    /\ rp.mantissa_bits > 0
    /\ rp.mantissa_bits < F32MantissaBits
    /\ rp.exponent_bits < F32ExponentBits
    /\ RoundMantissa(rp.x, rp.mantissa_bits) = Word(ExponentSize, 0)
    /\ rp.result = rp.x


(***************************************************************************)
(* Integer binary operators on IntBits-wide operands.  A value is its bit  *)
(* pattern in 0..IntSize-1; signed operators read it in two's complement.  *)
(* An LLVM instruction whose behaviour is undefined for its operands       *)
(* (division by zero, INT_MIN / -1) gives Trap, and the IR that contains   *)
(* it gives Trap whatever is selected afterwards; a shift by the bit width *)
(* or more gives Poison, which a select that does not choose it discards.  *)
(***************************************************************************)
IntBits == 4

IntSize == 2 ^ IntBits
IntPatterns == 0..(IntSize - 1)

Trap == -1
Poison == -2

\* The two's-complement value of a bits-wide pattern.
SignedValue(v, bits) == IF v >= 2 ^ (bits - 1) THEN v - (2 ^ bits) ELSE v

ToSigned(v) == SignedValue(v, IntBits)
FromSigned(n) == n % IntSize

GetOne == 1
GetZero == 0
GetIntSMin == IntSize \div 2
GetMinusOne == IntSize - 1

IsZero(v) == v = 0

IsIntMinDivisionOverflow(lhs, rhs) == lhs = GetIntSMin /\ rhs = GetMinusOne

Select(cond, if_true, if_false) == IF cond THEN if_true ELSE if_false

Abs(n) == IF n < 0 THEN -n ELSE n

\* Quotient truncated toward zero, and the remainder that goes with it.
TruncDiv(a, b) ==
    IF (a < 0) = (b < 0) THEN Abs(a) \div Abs(b) ELSE -(Abs(a) \div Abs(b))
TruncRem(a, b) == a - (b * TruncDiv(a, b))

CreateUDiv(lhs, rhs) == IF rhs = 0 THEN Trap ELSE lhs \div rhs
CreateURem(lhs, rhs) == IF rhs = 0 THEN Trap ELSE lhs % rhs
CreateSDiv(lhs, rhs) ==
    IF rhs = 0 \/ IsIntMinDivisionOverflow(lhs, rhs) THEN Trap
    ELSE FromSigned(TruncDiv(ToSigned(lhs), ToSigned(rhs)))
CreateSRem(lhs, rhs) ==
    IF rhs = 0 \/ IsIntMinDivisionOverflow(lhs, rhs) THEN Trap
    ELSE FromSigned(TruncRem(ToSigned(lhs), ToSigned(rhs)))

CreateShl(lhs, rhs) ==
    IF rhs >= IntBits THEN Poison ELSE (lhs * (2 ^ rhs)) % IntSize
CreateLShr(lhs, rhs) ==
    IF rhs >= IntBits THEN Poison ELSE lhs \div (2 ^ rhs)
CreateAShr(lhs, rhs) ==
    IF rhs >= IntBits THEN Poison
    ELSE FromSigned(ToSigned(lhs) \div (2 ^ rhs))

\* Mutant of EmitIntegerDivide: the hardware divide takes the original
\* divisor instead of the safe one.
EmitIntegerDivide_RawDivisor(lhs, rhs, is_signed) ==
    IF ~is_signed
    THEN LET safe_div == CreateUDiv(lhs, rhs)
         IN  IF safe_div = Trap THEN Trap
             ELSE Select(IsZero(rhs), GetMinusOne, safe_div)
    ELSE LET safe_div == CreateSDiv(lhs, rhs)
         IN  IF safe_div = Trap THEN Trap
             ELSE Select(IsZero(rhs), GetMinusOne,
                         Select(IsIntMinDivisionOverflow(lhs, rhs),
                                GetIntSMin, safe_div))

EmitIntegerDivide(lhs, rhs, is_signed) ==
    IF ~is_signed
    THEN LET udiv_is_unsafe == IsZero(rhs)
             safe_rhs == Select(udiv_is_unsafe, GetOne, rhs)
             safe_div == CreateUDiv(lhs, safe_rhs)
         IN  IF safe_div = Trap THEN Trap
             ELSE Select(udiv_is_unsafe, GetMinusOne, safe_div)
    ELSE LET has_zero_divisor == IsZero(rhs)
             has_int_min_overflow == IsIntMinDivisionOverflow(lhs, rhs)
             sdiv_is_unsafe == has_int_min_overflow \/ has_zero_divisor
             safe_rhs == Select(sdiv_is_unsafe, GetOne, rhs)
             safe_div == CreateSDiv(lhs, safe_rhs)
         IN  IF safe_div = Trap THEN Trap
             ELSE Select(has_zero_divisor, GetMinusOne,
                         Select(has_int_min_overflow, GetIntSMin, safe_div))

\* Mutant of EmitIntegerRemainder: a zero divisor gives zero instead of the
\* dividend.
EmitIntegerRemainder_ZeroForZeroDivisor(lhs, rhs, is_signed) ==
    IF ~is_signed
    THEN Select(IsZero(rhs), GetZero,
                CreateURem(lhs, Select(IsZero(rhs), GetOne, rhs)))
    ELSE LET unsafe == IsIntMinDivisionOverflow(lhs, rhs) \/ IsZero(rhs)
             safe_rem == CreateSRem(lhs, Select(unsafe, GetOne, rhs))
         IN  Select(IsZero(rhs), GetZero,
                    Select(IsIntMinDivisionOverflow(lhs, rhs),
                           GetZero, safe_rem))

\* Mutant of EmitIntegerRemainder: the INT_MIN % -1 case selects INT_MIN,
\* as the divide does, instead of zero.
EmitIntegerRemainder_OverflowAsDivide(lhs, rhs, is_signed) ==
    IF ~is_signed
    THEN Select(IsZero(rhs), lhs,
                CreateURem(lhs, Select(IsZero(rhs), GetOne, rhs)))
    ELSE LET unsafe == IsIntMinDivisionOverflow(lhs, rhs) \/ IsZero(rhs)
             safe_rem == CreateSRem(lhs, Select(unsafe, GetOne, rhs))
         IN  Select(IsZero(rhs), lhs,
                    Select(IsIntMinDivisionOverflow(lhs, rhs),
                           GetIntSMin, safe_rem))

EmitIntegerRemainder(lhs, rhs, is_signed) ==
    IF ~is_signed
    THEN LET urem_is_unsafe == IsZero(rhs)
             safe_rhs == Select(urem_is_unsafe, GetOne, rhs)
             safe_rem == CreateURem(lhs, safe_rhs)
         IN  IF safe_rem = Trap THEN Trap
             ELSE Select(urem_is_unsafe, lhs, safe_rem)
    ELSE LET has_zero_divisor == IsZero(rhs)
             has_int_min_overflow == IsIntMinDivisionOverflow(lhs, rhs)
             srem_is_unsafe == has_int_min_overflow \/ has_zero_divisor
             safe_rhs == Select(srem_is_unsafe, GetOne, rhs)
             safe_rem == CreateSRem(lhs, safe_rhs)
         IN  IF safe_rem = Trap THEN Trap
             ELSE Select(has_zero_divisor, lhs,
                         Select(has_int_min_overflow, GetZero, safe_rem))

\* Mutant of SaturateShiftIfNecessary: the range test on the shift amount
\* is signed (ICmpSLT instead of ICmpULT).
SaturateShiftIfNecessary_SignedTest(lhs, rhs, shift_result, saturate_to_sign_bit) ==
    LET saturated_value ==
            IF saturate_to_sign_bit
            THEN Select(ToSigned(lhs) < 0, GetMinusOne, GetZero)
            ELSE GetZero
    IN  Select(ToSigned(rhs) < IntBits, shift_result, saturated_value)

SaturateShiftIfNecessary(lhs, rhs, shift_result, saturate_to_sign_bit) ==
    LET integer_bitsize == IntBits
        zero == GetZero
        minus_one == GetMinusOne
        saturated_value ==
            IF saturate_to_sign_bit
            THEN Select(ToSigned(lhs) < ToSigned(zero), minus_one, zero)
            ELSE zero
        shift_amt_in_range == rhs < integer_bitsize
    IN  Select(shift_amt_in_range, shift_result, saturated_value)

IntegerOpcodes ==
    {"divide", "remainder", "shift-left", "shift-right-logical",
     "shift-right-arithmetic"}

EmitIntegerBinaryOp(op, lhs_value, rhs_value, is_signed) ==
    CASE op = "divide" -> EmitIntegerDivide(lhs_value, rhs_value, is_signed)
      [] op = "remainder" ->
            EmitIntegerRemainder(lhs_value, rhs_value, is_signed)
      [] op = "shift-right-arithmetic" ->
            SaturateShiftIfNecessary(lhs_value, rhs_value,
                                     CreateAShr(lhs_value, rhs_value), TRUE)
      [] op = "shift-left" ->
            SaturateShiftIfNecessary(lhs_value, rhs_value,
                                     CreateShl(lhs_value, rhs_value), FALSE)
      [] op = "shift-right-logical" ->
            SaturateShiftIfNecessary(lhs_value, rhs_value,
                                     CreateLShr(lhs_value, rhs_value), FALSE)

(***************************************************************************)
(* The LLVM instruction the emitted code executes for an integer binary    *)
(* instruction, with the operands it is given: udiv/sdiv and urem/srem     *)
(* take safe_rhs, the shifts take the operands as they are.                *)
(***************************************************************************)
Instruction(opcode, lhs, rhs) == [opcode |-> opcode, lhs |-> lhs, rhs |-> rhs]

\* Mutant of DivideInstruction: only a zero divisor is replaced.
DivideInstruction_ZeroOnly(lhs, rhs, is_signed) ==
    Instruction(IF is_signed THEN "sdiv" ELSE "udiv", lhs,
                Select(IsZero(rhs), GetOne, rhs))

DivideInstruction(lhs, rhs, is_signed) ==
    IF ~is_signed
    THEN LET udiv_is_unsafe == IsZero(rhs)
             safe_rhs == Select(udiv_is_unsafe, GetOne, rhs)
         IN  Instruction("udiv", lhs, safe_rhs)
    ELSE LET has_zero_divisor == IsZero(rhs)
             has_int_min_overflow == IsIntMinDivisionOverflow(lhs, rhs)
             sdiv_is_unsafe == has_int_min_overflow \/ has_zero_divisor
             safe_rhs == Select(sdiv_is_unsafe, GetOne, rhs)
         IN  Instruction("sdiv", lhs, safe_rhs)

RemainderInstruction(lhs, rhs, is_signed) ==
    IF ~is_signed
    THEN LET urem_is_unsafe == IsZero(rhs)
             safe_rhs == Select(urem_is_unsafe, GetOne, rhs)
         IN  Instruction("urem", lhs, safe_rhs)
    ELSE LET has_zero_divisor == IsZero(rhs)
             has_int_min_overflow == IsIntMinDivisionOverflow(lhs, rhs)
             srem_is_unsafe == has_int_min_overflow \/ has_zero_divisor
             safe_rhs == Select(srem_is_unsafe, GetOne, rhs)
         IN  Instruction("srem", lhs, safe_rhs)

IntegerInstruction(op, lhs_value, rhs_value, is_signed) ==
    CASE op = "divide" -> DivideInstruction(lhs_value, rhs_value, is_signed)
      [] op = "remainder" ->
            RemainderInstruction(lhs_value, rhs_value, is_signed)
      [] op = "shift-right-arithmetic" ->
            Instruction("ashr", lhs_value, rhs_value)
      [] op = "shift-left" -> Instruction("shl", lhs_value, rhs_value)
      [] op = "shift-right-logical" ->
            Instruction("lshr", lhs_value, rhs_value)

InitInt ==
    /\ pc = "idle"
    /\ rp = NoReducePrecision
    /\ ib = NoIntegerOp
    /\ el = NoElemental
    /\ gen = NoGenerators

\* One integer binary instruction of opcode op on one pair of elements.
IntegerBinaryOp(op) ==
    /\ pc = "idle"
    /\ \E lhs \in IntPatterns, rhs \in IntPatterns, is_signed \in BOOLEAN :
          ib' = [op |-> op, lhs |-> lhs, rhs |-> rhs, is_signed |-> is_signed,
                 instruction |-> IntegerInstruction(op, lhs, rhs, is_signed),
                 result |-> EmitIntegerBinaryOp(op, lhs, rhs, is_signed)]
    /\ pc' = "int_done"
    /\ UNCHANGED <<rp, el, gen>>

IntegerDivide == IntegerBinaryOp("divide")
IntegerRemainder == IntegerBinaryOp("remainder")
ShiftLeft == IntegerBinaryOp("shift-left")
ShiftRightLogical == IntegerBinaryOp("shift-right-logical")
ShiftRightArithmetic == IntegerBinaryOp("shift-right-arithmetic")

NextInt ==
    \/ IntegerDivide
    \/ IntegerRemainder
    \/ ShiftLeft
    \/ ShiftRightLogical
    \/ ShiftRightArithmetic

SpecInt == InitInt /\ [][NextInt]_vars


Bit(v, i) == (v \div (2 ^ i)) % 2

\* C5: integer division never has an undefined result: unsigned x / 0 is
\* all ones, signed INT_MIN / -1 is INT_MIN, and every pair with a non-zero
\* divisor other than signed (INT_MIN, -1) gives the quotient truncated
\* toward zero.
C5_DivideDefined ==
    (pc = "int_done" /\ ib.op = "divide")
    => /\ ib.result \in IntPatterns
       /\ (~ib.is_signed /\ ib.rhs = 0) => ib.result = IntSize - 1
       /\ (ib.is_signed /\ ib.lhs = IntSize \div 2 /\ ib.rhs = IntSize - 1)
            => ib.result = IntSize \div 2
       /\ (~ib.is_signed /\ ib.rhs # 0)
            => /\ ib.result * ib.rhs <= ib.lhs
               /\ ib.lhs < (ib.result + 1) * ib.rhs
       /\ (/\ ib.is_signed
           /\ ib.rhs # 0
           /\ ~(ib.lhs = IntSize \div 2 /\ ib.rhs = IntSize - 1))
            => LET a == ToSigned(ib.lhs)
                   b == ToSigned(ib.rhs)
                   q == ToSigned(ib.result)
                   r == a - (q * b)
               IN  /\ Abs(r) < Abs(b)
                   /\ r = 0 \/ (r < 0) = (a < 0)

\* Signed INT_MIN / -1, the pair the hardware divide cannot take.
C5_Witness ==
    /\ pc = "int_done"
    /\ ib.op = "divide"
    /\ ib.is_signed
    /\ ib.lhs = IntSize \div 2
    /\ ib.rhs = IntSize - 1
    /\ ib.result = IntSize \div 2

\* C6: x % 0 is x, signed or unsigned; signed INT_MIN % -1 is 0; every other
\* pair gives the remainder of the division truncated toward zero.
C6_RemainderDefined ==
    (pc = "int_done" /\ ib.op = "remainder")
    => /\ ib.rhs = 0 => ib.result = ib.lhs
       /\ (ib.is_signed /\ ib.lhs = IntSize \div 2 /\ ib.rhs = IntSize - 1)
            => ib.result = 0
       /\ (~ib.is_signed /\ ib.rhs # 0)
            => /\ ib.result \in 0..(ib.rhs - 1)
               /\ \E q \in IntPatterns : q * ib.rhs + ib.result = ib.lhs
       /\ (/\ ib.is_signed
           /\ ib.rhs # 0
           /\ ~(ib.lhs = IntSize \div 2 /\ ib.rhs = IntSize - 1))
            => LET a == ToSigned(ib.lhs)
                   b == ToSigned(ib.rhs)
                   r == ToSigned(ib.result)
               IN  /\ ib.result \in IntPatterns
                   /\ Abs(r) < Abs(b)
                   /\ r = 0 \/ (r < 0) = (a < 0)
                   /\ \E q \in (-(IntSize \div 2))..(IntSize \div 2) :
                         q * b + r = a

\* Signed INT_MIN % -1.
C6_Witness ==
    /\ pc = "int_done"
    /\ ib.op = "remainder"
    /\ ib.is_signed
    /\ ib.lhs = IntSize \div 2
    /\ ib.rhs = IntSize - 1
    /\ ib.result = 0

\* C7: a shift amount that, read unsigned, is at least the bit width gives 0
\* for shift-left and logical shift-right and the sign fill for arithmetic
\* shift-right; a smaller amount gives the ordinary shift, bit by bit.
C7_SaturatingShift ==
    (pc = "int_done"
       /\ ib.op \in {"shift-left", "shift-right-logical",
                     "shift-right-arithmetic"})
    => IF ib.rhs >= IntBits
       THEN ib.result = IF ib.op = "shift-right-arithmetic"
                           /\ ToSigned(ib.lhs) < 0
                        THEN IntSize - 1
                        ELSE 0
       ELSE /\ ib.result \in IntPatterns
            /\ \A i \in 0..(IntBits - 1) :
                 Bit(ib.result, i) =
                   CASE ib.op = "shift-left" ->
                          IF i >= ib.rhs THEN Bit(ib.lhs, i - ib.rhs) ELSE 0
                     [] ib.op = "shift-right-logical" ->
                          IF i + ib.rhs < IntBits
                          THEN Bit(ib.lhs, i + ib.rhs) ELSE 0
                     [] ib.op = "shift-right-arithmetic" ->
                          IF i + ib.rhs < IntBits
                          THEN Bit(ib.lhs, i + ib.rhs)
                          ELSE Bit(ib.lhs, IntBits - 1)

\* An arithmetic shift-right of a negative value by an amount whose top bit
\* is set (negative when read signed).
C7_Witness ==
    /\ pc = "int_done"
    /\ ib.op = "shift-right-arithmetic"
    /\ ToSigned(ib.lhs) < 0
    /\ ib.rhs = IntSize - 1
    /\ ib.result = IntSize - 1


(***************************************************************************)
(* Structured emitters.  Coordinates are sequences of IndexBits-wide       *)
(* patterns (llvm_ir::IrArray::Index over one index type); signed          *)
(* comparisons read a pattern in two's complement.  What the emitted code  *)
(* does for one output coordinate is the sequence of operand reads it      *)
(* executes: Read(k, index) is operand k's generator invoked at index, and *)
(* the last read supplies the element.                                     *)
(***************************************************************************)
IndexBits == 4

IndexSize == 2 ^ IndexBits
IndexMax == (IndexSize \div 2) - 1

\* llvm::ConstantInt::get(index_type, c)
IndexConst(c) == c % IndexSize
IndexValue(v) == SignedValue(v, IndexBits)

IndexAdd(a, b) == (a + b) % IndexSize
IndexSub(a, b) == (a - b) % IndexSize
IndexURem(a, b) == IF b = 0 THEN Trap ELSE a % b
IndexSDiv(a, b) ==
    IF b = 0 \/ (a = IndexSize \div 2 /\ b = IndexSize - 1) THEN Trap
    ELSE IndexConst(TruncDiv(IndexValue(a), IndexValue(b)))
ICmpSGE(a, b) == IndexValue(a) >= IndexValue(b)
ICmpSLT(a, b) == IndexValue(a) < IndexValue(b)
ICmpSLE(a, b) == IndexValue(a) <= IndexValue(b)
ICmpULT(a, b) == a < b
ICmpULE(a, b) == a <= b
ICmpUGE(a, b) == a >= b

\* CreateSExtOrTrunc(v, index_type) of a from_bits-wide pattern.
CreateSExtOrTrunc(v, from_bits) ==
    IF from_bits > IndexBits
    THEN v % IndexSize
    ELSE IndexConst(SignedValue(v, from_bits))

EmitIntegralMax(lhs_value, rhs_value, is_signed) ==
    Select(IF is_signed THEN ICmpSGE(lhs_value, rhs_value)
                        ELSE ICmpUGE(lhs_value, rhs_value),
           lhs_value, rhs_value)

EmitIntegralMin(lhs_value, rhs_value, is_signed) ==
    Select(IF is_signed THEN ICmpSLE(lhs_value, rhs_value)
                        ELSE ICmpULE(lhs_value, rhs_value),
           lhs_value, rhs_value)

Read(operand, index) == [operand |-> operand, index |-> index]

Executed(reads) == [status |-> "ok", reads |-> reads]

\* b_->CreateUnreachable() is executed.
Unreachable == [status |-> "unreachable", reads |-> <<>>]

Rank(dims) == Len(dims)

(***************************************************************************)
(* EmitElementalPad.  hlo = [operand_dims, padding_config], where          *)
(* padding_config[i] = [edge_padding_low, edge_padding_high,               *)
(* interior_padding].                                                      *)
(***************************************************************************)
\* Mutant of EmitElementalPad: the extent test is ICmpSLE instead of ICmpSLT.
EmitElementalPad_ExtentInclusive(hlo, padded_index) ==
    LET rank == Rank(hlo.operand_dims)
        stride(i) == IndexConst(hlo.padding_config[i].interior_padding + 1)
        pre(i) == IndexSub(padded_index[i],
                           IndexConst(hlo.padding_config[i].edge_padding_low))
        index == [i \in 1..rank |-> IndexSDiv(pre(i), stride(i))]
        in_bounds ==
            \A i \in 1..rank :
                /\ ICmpSGE(pre(i), IndexConst(0))
                /\ IndexConst(0) = IndexURem(pre(i), stride(i))
                /\ ICmpSLE(index[i], IndexConst(hlo.operand_dims[i]))
    IN  IF in_bounds
        THEN Executed(<<Read(0, index)>>)
        ELSE Executed(<<Read(1, <<>>)>>)

EmitElementalPad(hlo, padded_index) ==
    LET rank == Rank(hlo.operand_dims)
        stride(i) == IndexConst(hlo.padding_config[i].interior_padding + 1)
        \* index[i] = index[i] - edge_padding_low
        pre(i) == IndexSub(padded_index[i],
                           IndexConst(hlo.padding_config[i].edge_padding_low))
        \* index[i] = index[i] /s (interior_padding + 1)
        index == [i \in 1..rank |-> IndexSDiv(pre(i), stride(i))]
        in_bounds ==
            \A i \in 1..rank :
                /\ ICmpSGE(pre(i), IndexConst(0))
                /\ IndexConst(0) = IndexURem(pre(i), stride(i))
                /\ ICmpSLT(index[i], IndexConst(hlo.operand_dims[i]))
    IN  IF \E i \in 1..rank : index[i] = Trap
        THEN [status |-> "trap", reads |-> <<>>]
        ELSE IF in_bounds
        THEN Executed(<<Read(0, index)>>)
        ELSE \* operand 1 at IrArray::Index(index.GetType()), the empty index
             Executed(<<Read(1, <<>>)>>)

(***************************************************************************)
(* EmitElementalConcatenate.  hlo = [concat_dim, operand_extents], where   *)
(* operand_extents[k] is operand k-1's extent along concat_dim (0-based).  *)
(* The emitted code is a chain of conditional branches ending in           *)
(* unreachable.                                                            *)
(***************************************************************************)
RECURSIVE ConcatChain_NoSubtract(_, _, _)
ConcatChain_NoSubtract(hlo, operand_idx, source_index) ==
    IF operand_idx >= Len(hlo.operand_extents)
    THEN Unreachable
    ELSE LET concat_dim_size == IndexConst(hlo.operand_extents[operand_idx + 1])
         IN  IF ICmpULT(source_index[hlo.concat_dim + 1], concat_dim_size)
             THEN Executed(<<Read(operand_idx, source_index)>>)
             ELSE ConcatChain_NoSubtract(hlo, operand_idx + 1, source_index)

\* Mutant of EmitElementalConcatenate: the extent of a skipped operand is
\* not subtracted from the source index.
EmitElementalConcatenate_NoSubtract(hlo, target_index) ==
    ConcatChain_NoSubtract(hlo, 0, target_index)

RECURSIVE ConcatChain(_, _, _)
ConcatChain(hlo, operand_idx, source_index) ==
    IF operand_idx >= Len(hlo.operand_extents)
    THEN Unreachable
    ELSE LET concat_dim_size == IndexConst(hlo.operand_extents[operand_idx + 1])
         IN  IF ICmpULT(source_index[hlo.concat_dim + 1], concat_dim_size)
             THEN Executed(<<Read(operand_idx, source_index)>>)
             ELSE ConcatChain(hlo, operand_idx + 1,
                              [source_index EXCEPT ![hlo.concat_dim + 1] =
                                  IndexSub(@, concat_dim_size)])

EmitElementalConcatenate(hlo, target_index) == ConcatChain(hlo, 0, target_index)

(***************************************************************************)
(* EmitElementalDynamicSlice.  hlo = [operand_dims, dims, start_type],     *)
(* start_type = [bits, is_signed] the element type of operand 1, and       *)
(* start the rank-1 contents of operand 1 as patterns of that type.        *)
(***************************************************************************)
\* Mutant of EmitElementalDynamicSlice: the converted start value is used
\* without clamping.
EmitElementalDynamicSlice_Unclamped(hlo, start, index) ==
    LET rank == Rank(hlo.operand_dims)
        dim_index(i) == <<IndexConst(i)>>
        slice_start_index ==
            [j \in 1..rank |->
                CreateSExtOrTrunc(start[dim_index(j - 1)[1] + 1],
                                  hlo.start_type.bits)]
        input_index ==
            [j \in 1..rank |-> IndexAdd(slice_start_index[j], index[j])]
    IN  Executed([j \in 1..rank |-> Read(1, dim_index(j - 1))]
                    \o <<Read(0, input_index)>>)

EmitElementalDynamicSlice(hlo, start, index) ==
    LET rank == Rank(hlo.operand_dims)
        is_signed == hlo.start_type.is_signed
        dim_index(i) == <<IndexConst(i)>>
        slice_start_index ==
            [j \in 1..rank |->
                LET i == j - 1
                    start_index_value == start[dim_index(i)[1] + 1]
                    extended == CreateSExtOrTrunc(start_index_value,
                                                  hlo.start_type.bits)
                    largest_valid_start_index ==
                        hlo.operand_dims[j] - hlo.dims[j]
                IN  EmitIntegralMin(
                        IndexConst(largest_valid_start_index),
                        EmitIntegralMax(IndexConst(0), extended, is_signed),
                        is_signed)]
        input_index ==
            [j \in 1..rank |-> IndexAdd(slice_start_index[j], index[j])]
    IN  Executed([j \in 1..rank |-> Read(1, dim_index(j - 1))]
                    \o <<Read(0, input_index)>>)


(***************************************************************************)
(* Inputs of the structured-emitter specification.  Operand shapes have at *)
(* most MaxElems elements and at most MaxElems \div 2 dimensions; a        *)
(* padding configuration spends at most PadBudget over all of its amounts; *)
(* a concatenation has at most MaxOperands operands; the start-index       *)
(* element types are one bit narrower than, as wide as and one bit wider   *)
(* than the index type, signed and unsigned, and every pattern of the      *)
(* type is taken.                                                          *)
(***************************************************************************)
MaxElems == 4
PadBudget == 2
MaxOperands == 3

MaxRank == MaxElems \div 2

RECURSIVE Product(_)
Product(seq) == IF seq = <<>> THEN 1 ELSE Head(seq) * Product(Tail(seq))

RECURSIVE Sum(_)
Sum(seq) == IF seq = <<>> THEN 0 ELSE Head(seq) + Sum(Tail(seq))

Shapes ==
    UNION {{dims \in [1..r -> 1..MaxElems] : Product(dims) <= MaxElems} :
              r \in 1..MaxRank}

\* The coordinates of a shape.
Box(dims) ==
    {index \in [1..Len(dims) -> 0..IndexMax] :
        \A i \in 1..Len(dims) : index[i] < dims[i]}

\* Edge padding may be negative (it removes elements from the edge).
PaddingAmount(pd) ==
    Abs(pd.edge_padding_low) + Abs(pd.edge_padding_high) + pd.interior_padding

PaddingDimensions ==
    {pd \in [edge_padding_low : (0 - PadBudget)..PadBudget,
             edge_padding_high : (0 - PadBudget)..PadBudget,
             interior_padding : 0..PadBudget] : PaddingAmount(pd) <= PadBudget}

PaddingConfigs(rank) ==
    {cfg \in [1..rank -> PaddingDimensions] :
        Sum([i \in 1..rank |-> PaddingAmount(cfg[i])]) <= PadBudget}

\* The shape of a pad instruction (ShapeInference::InferPadShape).
PadShape(hlo) ==
    [i \in 1..Len(hlo.operand_dims) |->
        hlo.padding_config[i].edge_padding_low + hlo.operand_dims[i]
          + (hlo.operand_dims[i] - 1) * hlo.padding_config[i].interior_padding
          + hlo.padding_config[i].edge_padding_high]

FitsIndexType(dims) == \A i \in 1..Len(dims) : dims[i] \in 0..IndexMax

PadInstructions ==
    {hlo \in UNION {[operand_dims : {dims},
                     padding_config : PaddingConfigs(Len(dims))] :
                       dims \in Shapes} :
        FitsIndexType(PadShape(hlo))}

ConcatenateInstructions ==
    UNION {[concat_dim : 0..(r - 1), rank : {r},
            operand_extents :
                UNION {{ex \in [1..n -> 0..MaxElems] :
                           Sum(ex) \in 1..MaxElems} : n \in 1..MaxOperands}] :
              r \in 1..MaxRank}

\* The coordinates of a concatenate instruction's output: below the sum of
\* the operands' extents along concat_dim.
ConcatenateBox(hlo) ==
    {index \in [1..hlo.rank -> 0..(MaxElems - 1)] :
        index[hlo.concat_dim + 1] < Sum(hlo.operand_extents)}

StartTypes ==
    [bits : {IndexBits - 1, IndexBits, IndexBits + 1}, is_signed : BOOLEAN]

DynamicSliceInstructions ==
    UNION {{hlo \in [operand_dims : {dims},
                     dims : [1..Len(dims) -> 1..MaxElems],
                     start_type : StartTypes] :
               \A i \in 1..Len(dims) : hlo.dims[i] <= dims[i]} :
              dims \in Shapes}

\* The number a start-index element stands for in its own type.
StartValue(pattern, start_type) ==
    IF start_type.is_signed THEN SignedValue(pattern, start_type.bits)
    ELSE pattern

StartIndices(hlo) ==
    [1..Len(hlo.operand_dims) -> 0..((2 ^ hlo.start_type.bits) - 1)]

InitEl ==
    /\ pc = "idle"
    /\ rp = NoReducePrecision
    /\ ib = NoIntegerOp
    /\ el = NoElemental
    /\ gen = NoGenerators

\* One pad instruction evaluated at one coordinate of its output.
ElementalPad ==
    /\ pc = "idle"
    /\ \E hlo \in PadInstructions :
         \E padded_index \in Box(PadShape(hlo)) :
            el' = [op |-> "pad", hlo |-> hlo, start |-> <<>>,
                   index |-> padded_index,
                   out |-> EmitElementalPad(hlo, padded_index)]
    /\ pc' = "el_done"
    /\ UNCHANGED <<rp, ib, gen>>

\* One concatenate instruction evaluated at one coordinate of its output.
ElementalConcatenate ==
    /\ pc = "idle"
    /\ \E hlo \in ConcatenateInstructions :
         \E target_index \in ConcatenateBox(hlo) :
            el' = [op |-> "concatenate", hlo |-> hlo, start |-> <<>>,
                   index |-> target_index,
                   out |-> EmitElementalConcatenate(hlo, target_index)]
    /\ pc' = "el_done"
    /\ UNCHANGED <<rp, ib, gen>>

\* One dynamic-slice instruction evaluated at one coordinate of its output,
\* for one content of its start-indices operand.
ElementalDynamicSlice ==
    /\ pc = "idle"
    /\ \E hlo \in DynamicSliceInstructions :
         \E start \in StartIndices(hlo), index \in Box(hlo.dims) :
            el' = [op |-> "dynamic-slice",
                   hlo |-> hlo, start |-> start,
                   index |-> index,
                   out |-> EmitElementalDynamicSlice(hlo, start, index)]
    /\ pc' = "el_done"
    /\ UNCHANGED <<rp, ib, gen>>

NextEl == ElementalPad \/ ElementalConcatenate \/ ElementalDynamicSlice

SpecEl == InitEl /\ [][NextEl]_vars


Min(a, b) == IF a <= b THEN a ELSE b
Max(a, b) == IF a >= b THEN a ELSE b

\* C8: with pre[d] = output[d] - edge_low[d] and s[d] = interior[d] + 1, the
\* pad element is the operand element at pre[d] / s[d] exactly when in every
\* dimension pre[d] >= 0, pre[d] mod s[d] = 0 and pre[d] / s[d] is below the
\* operand's extent; otherwise it is the padding value read at the empty
\* coordinate.  For shape [3], low 1, high 1, interior 0: outputs 0 and 4
\* are padding, outputs 1..3 read operand 0..2.
C8_Pad ==
    (pc = "el_done" /\ el.op = "pad")
    => LET rank == Len(el.hlo.operand_dims)
           pre == [d \in 1..rank |->
                      el.index[d] - el.hlo.padding_config[d].edge_padding_low]
           s == [d \in 1..rank |->
                    el.hlo.padding_config[d].interior_padding + 1]
           from_operand ==
               \A d \in 1..rank :
                   /\ pre[d] >= 0
                   /\ pre[d] % s[d] = 0
                   /\ pre[d] \div s[d] < el.hlo.operand_dims[d]
       IN  /\ el.out.status = "ok"
           /\ from_operand
                => el.out.reads =
                     <<Read(0, [d \in 1..rank |-> pre[d] \div s[d]])>>
           /\ ~from_operand => el.out.reads = <<Read(1, <<>>)>>
           /\ (/\ el.hlo.operand_dims = <<3>>
               /\ el.hlo.padding_config =
                    <<[edge_padding_low |-> 1, edge_padding_high |-> 1,
                       interior_padding |-> 0]>>)
                => /\ el.index[1] \in {0, 4}
                        => el.out.reads = <<Read(1, <<>>)>>
                   /\ el.index[1] \in 1..3
                        => el.out.reads = <<Read(0, <<el.index[1] - 1>>)>>

\* A rank-2 pad with interior padding in one dimension and low padding in
\* the other, at a coordinate that reads an operand element other than the
\* first.
C8_Witness ==
    /\ pc = "el_done"
    /\ el.op = "pad"
    /\ Len(el.hlo.operand_dims) = 2
    /\ \E d \in 1..2 : el.hlo.padding_config[d].interior_padding > 0
    /\ \E d \in 1..2 : el.hlo.padding_config[d].edge_padding_low > 0
    /\ Len(el.out.reads) = 1
    /\ el.out.reads[1].operand = 0
    /\ \E d \in 1..2 : el.out.reads[1].index[d] > 0

\* The sum of the first k extents.
PrefixSum(extents, k) == Sum(SubSeq(extents, 1, k))

\* C9: for a coordinate c along the concatenation dimension below the sum
\* of the extents, exactly one operand is read: operand k, the smallest
\* index with c below the sum of extents 0..k, at the same coordinate except
\* that c is lowered by the sum of the extents before k.
C9_Concatenate ==
    (pc = "el_done" /\ el.op = "concatenate")
    => LET extents == el.hlo.operand_extents
           cd == el.hlo.concat_dim + 1
           c == el.index[cd]
           first == CHOOSE k \in 1..Len(extents) :
                       /\ c < PrefixSum(extents, k)
                       /\ \A j \in 1..(k - 1) : c >= PrefixSum(extents, j)
       IN  /\ el.out.status = "ok"
           /\ el.out.reads =
                <<Read(first - 1,
                       [el.index EXCEPT ![cd] =
                           c - PrefixSum(extents, first - 1)])>>

\* The value comes from the last of three operands, past an empty one.
C9_Witness ==
    /\ pc = "el_done"
    /\ el.op = "concatenate"
    /\ Len(el.hlo.operand_extents) = 3
    /\ el.hlo.operand_extents[2] = 0
    /\ el.hlo.rank = 2
    /\ Len(el.out.reads) = 1
    /\ el.out.reads[1].operand = 2
    /\ el.out.reads[1].index[el.hlo.concat_dim + 1] > 0
    /\ el.out.reads[1].index # el.index

\* C10: in every dimension d the start value s[d], read from the
\* start-indices operand at coordinate (d), is replaced by
\* min(max(s[d], 0), operand_extent[d] - result_extent[d]), whatever the
\* value, and the operand is read at that start plus the output coordinate.
C10_DynamicSliceClamp ==
    (pc = "el_done" /\ el.op = "dynamic-slice")
    => LET rank == Len(el.hlo.operand_dims)
           clamped ==
               [d \in 1..rank |->
                   Min(Max(StartValue(el.start[d], el.hlo.start_type), 0),
                       el.hlo.operand_dims[d] - el.hlo.dims[d])]
       IN  /\ el.out.status = "ok"
           /\ Len(el.out.reads) = rank + 1
           /\ \A d \in 1..rank : el.out.reads[d] = Read(1, <<d - 1>>)
           /\ el.out.reads[rank + 1] =
                Read(0, [d \in 1..rank |-> clamped[d] + el.index[d]])

(***************************************************************************)
(* EmitElementalDynamicUpdateSlice.  hlo = [operand_dims, update_dims,     *)
(* start_type]: the shapes of operands 0 and 1 and the element type of     *)
(* operand 2, whose rank-1 contents are start.  Both branches of the       *)
(* emitted if-then-else hold a generator call; the one executed is the     *)
(* one slice_intersection selects.                                         *)
(***************************************************************************)
\* Mutant of EmitElementalDynamicUpdateSlice: the limit test is ICmpSLE
\* instead of ICmpSLT.
EmitElementalDynamicUpdateSlice_LimitInclusive(hlo, start, index) ==
    LET rank == Rank(hlo.operand_dims)
        is_signed == hlo.start_type.is_signed
        slice_start_index ==
            [j \in 1..rank |->
                EmitIntegralMin(
                    IndexConst(hlo.operand_dims[j] - hlo.update_dims[j]),
                    EmitIntegralMax(IndexConst(0),
                        CreateSExtOrTrunc(start[j], hlo.start_type.bits),
                        is_signed),
                    is_signed)]
        slice_limit_index ==
            [j \in 1..rank |->
                IndexAdd(slice_start_index[j], IndexConst(hlo.update_dims[j]))]
        slice_intersection ==
            \A j \in 1..rank :
                /\ ICmpSGE(index[j], slice_start_index[j])
                /\ ICmpSLE(index[j], slice_limit_index[j])
        update_index ==
            [j \in 1..rank |-> IndexSub(index[j], slice_start_index[j])]
    IN  [status |-> "ok",
         reads |-> [j \in 1..rank |-> Read(2, <<IndexConst(j - 1)>>)]
                     \o (IF slice_intersection
                         THEN <<Read(1, update_index)>>
                         ELSE <<Read(0, index)>>),
         slice_start_index |-> slice_start_index]

EmitElementalDynamicUpdateSlice(hlo, start, index) ==
    LET rank == Rank(hlo.operand_dims)
        is_signed == hlo.start_type.is_signed
        dim_index(i) == <<IndexConst(i)>>
        slice_start_index ==
            [j \in 1..rank |->
                LET i == j - 1
                    start_index_value == start[dim_index(i)[1] + 1]
                    extended == CreateSExtOrTrunc(start_index_value,
                                                  hlo.start_type.bits)
                    largest_valid_start_index ==
                        hlo.operand_dims[j] - hlo.update_dims[j]
                IN  EmitIntegralMin(
                        IndexConst(largest_valid_start_index),
                        EmitIntegralMax(IndexConst(0), extended, is_signed),
                        is_signed)]
        slice_limit_index ==
            [j \in 1..rank |->
                IndexAdd(slice_start_index[j], IndexConst(hlo.update_dims[j]))]
        slice_intersection ==
            \A j \in 1..rank :
                /\ ICmpSGE(index[j], slice_start_index[j])
                /\ ICmpSLT(index[j], slice_limit_index[j])
        update_index ==
            [j \in 1..rank |-> IndexSub(index[j], slice_start_index[j])]
    IN  [status |-> "ok",
         reads |-> [j \in 1..rank |-> Read(2, dim_index(j - 1))]
                     \o (IF slice_intersection
                         THEN <<Read(1, update_index)>>
                         ELSE <<Read(0, index)>>),
         slice_start_index |-> slice_start_index]

(***************************************************************************)
(* Inputs of the dynamic-update-slice specification: the shapes and start  *)
(* types of the dynamic-slice instructions, with the update in the place   *)
(* of the slice, and every coordinate of the operand's shape.  The start   *)
(* values are the patterns around zero and the extents, around the         *)
(* multiples of the index type's size and of its sign bit, and at the      *)
(* limits of the start type.                                               *)
(***************************************************************************)
StartSamples(start_type) ==
    {p \in 0..((2 ^ start_type.bits) - 1) :
        \/ StartValue(p, start_type) \in (0 - 2)..(MaxElems + 1)
        \/ p % IndexSize \in {0, 1, IndexSize - 1}
        \/ (p + IndexSize \div 2) % IndexSize \in {0, IndexSize - 1}
        \/ p \in {0, (2 ^ start_type.bits) - 1}}

UpdateStartIndices(hlo) ==
    [1..Len(hlo.operand_dims) -> StartSamples(hlo.start_type)]

DynamicUpdateSliceInstructions ==
    UNION {{hlo \in [operand_dims : {dims},
                     update_dims : [1..Len(dims) -> 1..MaxElems],
                     start_type : StartTypes] :
               \A i \in 1..Len(dims) : hlo.update_dims[i] <= dims[i]} :
              dims \in Shapes}

\* One dynamic-update-slice instruction evaluated at one coordinate of its
\* output, for one content of its start-indices operand.
ElementalDynamicUpdateSlice ==
    /\ pc = "idle"
    /\ \E hlo \in DynamicUpdateSliceInstructions :
         \E start \in UpdateStartIndices(hlo),
            index \in Box(hlo.operand_dims) :
            el' = [op |-> "dynamic-update-slice",
                   hlo |-> hlo, start |-> start,
                   index |-> index,
                   out |-> EmitElementalDynamicUpdateSlice(hlo, start, index)]
    /\ pc' = "el_done"
    /\ UNCHANGED <<rp, ib, gen>>

NextUpdate == ElementalDynamicUpdateSlice

SpecUpdate == InitEl /\ [][NextUpdate]_vars

SortedSeq(S) ==
    CHOOSE f \in [1..Cardinality(S) -> S] :
        \A i, j \in 1..Cardinality(S) : i < j => f[i] < f[j]

\* IrArray::Index::InsertAt(pos, v).
InsertAt(seq, pos, v) ==
    SubSeq(seq, 1, pos) \o <<v>> \o SubSeq(seq, pos + 1, Len(seq))

\* operand_to_output_dim[i]: -1 for a collapsed dimension, else the output
\* dimension offset_dims(operand_index_dim++) names.
OperandToOutputDim(hlo, i) ==
    IF i \in hlo.collapsed_slice_dims THEN 0 - 1
    ELSE hlo.offset_dims[
             Cardinality({j \in 0..(i - 1) :
                             j \notin hlo.collapsed_slice_dims}) + 1]

\* The output's components outside offset_dims, with a place for the
\* index-vector component when operand 1 has that dimension.
GatherIndexIndex(hlo, index) ==
    LET batch_dims ==
            SortedSeq({i \in 0..(Len(hlo.dims) - 1) :
                          \A p \in 1..Len(hlo.offset_dims) :
                              hlo.offset_dims[p] # i})
        components == [q \in 1..Len(batch_dims) |-> index[batch_dims[q] + 1]]
    IN  IF Len(components) # Len(hlo.indices_dims)
        THEN InsertAt(components, hlo.index_vector_dim, 0)
        ELSE components

\* Mutant of AddToOperandIndex: the output window extent is taken to be 1
\* for every operand dimension.
AddToOperandIndex_WindowIgnored(hlo, operand_index, index_component, dim) ==
    LET gather_dim_component_extended ==
            CreateSExtOrTrunc(index_component, hlo.start_type.bits)
        operand_dim == hlo.start_index_map[dim + 1]
        largest_valid_start_index == hlo.operand_dims[operand_dim + 1] - 1
        is_signed == hlo.start_type.is_signed
        gather_dim_component_extended_inbound ==
            EmitIntegralMin(
                IndexConst(largest_valid_start_index),
                EmitIntegralMax(IndexConst(0), gather_dim_component_extended,
                                is_signed),
                is_signed)
    IN  [operand_index EXCEPT ![operand_dim + 1] =
            IndexAdd(@, gather_dim_component_extended_inbound)]

\* The lambda add_to_operand_index.
AddToOperandIndex(hlo, operand_index, index_component, dim) ==
    LET gather_dim_component_extended ==
            CreateSExtOrTrunc(index_component, hlo.start_type.bits)
        operand_dim == hlo.start_index_map[dim + 1]
        output_dim == OperandToOutputDim(hlo, operand_dim)
        output_dim_size ==
            IF output_dim = 0 - 1 THEN 1 ELSE hlo.dims[output_dim + 1]
        largest_valid_start_index ==
            hlo.operand_dims[operand_dim + 1] - output_dim_size
        is_signed == hlo.start_type.is_signed
        gather_dim_component_extended_inbound ==
            EmitIntegralMin(
                IndexConst(largest_valid_start_index),
                EmitIntegralMax(IndexConst(0), gather_dim_component_extended,
                                is_signed),
                is_signed)
    IN  [operand_index EXCEPT ![operand_dim + 1] =
            IndexAdd(@, gather_dim_component_extended_inbound)]

\* The loop over the index vector, from entry i on: the reads of operand 1
\* and the operand index after the last addition.
RECURSIVE GatherLoop(_, _, _, _, _)
GatherLoop(hlo, start, gather_index_index, i, operand_index) ==
    IF i >= hlo.indices_dims[hlo.index_vector_dim + 1]
    THEN [reads |-> <<>>, operand_index |-> operand_index]
    ELSE LET at == [gather_index_index EXCEPT
                        ![hlo.index_vector_dim + 1] = IndexConst(i)]
             rest == GatherLoop(hlo, start, gather_index_index, i + 1,
                         AddToOperandIndex(hlo, operand_index,
                                           start[i + 1], i))
         IN  [reads |-> <<Read(1, at)>> \o rest.reads,
              operand_index |-> rest.operand_index]

EmitElementalGather(hlo, start, index) ==
    LET operand_index ==
            [j \in 1..Len(hlo.operand_dims) |->
                IF (j - 1) \in hlo.collapsed_slice_dims
                THEN IndexConst(0)
                ELSE index[OperandToOutputDim(hlo, j - 1) + 1]]
        gather_index_index == GatherIndexIndex(hlo, index)
        added ==
            IF Len(hlo.indices_dims) = hlo.index_vector_dim
            THEN [reads |-> <<Read(1, gather_index_index)>>,
                  operand_index |->
                      AddToOperandIndex(hlo, operand_index, start[1], 0)]
            ELSE GatherLoop(hlo, start, gather_index_index, 0, operand_index)
    IN  Executed(added.reads \o <<Read(0, added.operand_index)>>)

(***************************************************************************)
(* Inputs of the gather specification.  An instruction is built from the   *)
(* operand's shape, a slice size per operand dimension (0 marks a          *)
(* collapsed dimension, whose slice size is 1), a start-index map without  *)
(* repetition, no batch dimension or one of extent 2, the position of the  *)
(* index vector in operand 1 (explicit, or implicit after the last         *)
(* dimension when the map has one entry) and the output dimensions that    *)
(* are offset dimensions.                                                  *)
(***************************************************************************)
GatherBatchShapes == {<<>>, <<2>>}

\* The element types of operand 1: signed and one bit wider than the index
\* type, and unsigned and as wide as the index type.
GatherStartTypes ==
    {[bits |-> IndexBits + 1, is_signed |-> TRUE],
     [bits |-> IndexBits, is_signed |-> FALSE]}

\* The elements of operand 1: the values from -1 to one past the largest
\* extent, the all-ones pattern and the size of the index type.
GatherStartSamples(start_type) ==
    {p \in 0..((2 ^ start_type.bits) - 1) :
        \/ StartValue(p, start_type) \in (0 - 1)..(MaxElems + 1)
        \/ p \in {IndexSize, (2 ^ start_type.bits) - 1}}

GatherInstruction(operand_dims, slice, map, batch, ivd, explicit, offs,
                  start_type) ==
    LET collapsed == {i \in 0..(Len(operand_dims) - 1) : slice[i + 1] = 0}
        window_dims ==
            SortedSeq({i \in 0..(Len(operand_dims) - 1) : slice[i + 1] # 0})
        out_rank == Len(batch) + Len(window_dims)
    IN  [operand_dims |-> operand_dims,
         indices_dims |->
             IF explicit THEN InsertAt(batch, ivd, Len(map)) ELSE batch,
         dims |->
             [i \in 1..out_rank |->
                 IF (i - 1) \in offs
                 THEN slice[window_dims[
                          Cardinality({j \in offs : j < i - 1}) + 1] + 1]
                 ELSE batch[Cardinality({j \in 0..(i - 2) :
                                            j \notin offs}) + 1]],
         offset_dims |-> SortedSeq(offs),
         collapsed_slice_dims |-> collapsed,
         start_index_map |-> map,
         index_vector_dim |-> ivd,
         start_type |-> start_type]

GatherInstructions ==
    UNION {
      UNION {
        UNION {
          {GatherInstruction(operand_dims, slice, map, batch, ivd, explicit,
                             offs, start_type) :
             <<ivd, explicit, offs, start_type>> \in
               {t \in (0..Len(batch)) \X BOOLEAN
                        \X (SUBSET (0..(Len(batch) + Len(operand_dims) - 1)))
                        \X GatherStartTypes :
                   /\ ~t[2] => (t[1] = Len(batch) /\ Len(map) = 1)
                   /\ Cardinality(t[3]) =
                        Cardinality({i \in 1..Len(operand_dims) :
                                        slice[i] # 0})
                   /\ \A j \in t[3] :
                        j < Len(batch)
                              + Cardinality({i \in 1..Len(operand_dims) :
                                                slice[i] # 0})}} :
          <<map, batch>> \in
            (UNION {{m \in [1..n -> 0..(Len(operand_dims) - 1)] :
                        \A a, b \in 1..n : a # b => m[a] # m[b]} :
                      n \in 1..Len(operand_dims)}) \X GatherBatchShapes} :
        slice \in {sl \in [1..Len(operand_dims) -> 0..MaxElems] :
                      \A i \in 1..Len(operand_dims) :
                          sl[i] <= operand_dims[i]}} :
      operand_dims \in Shapes}

\* One gather instruction evaluated at one coordinate of its output, for
\* one content of the index vector it reads.
ElementalGather ==
    /\ pc = "idle"
    /\ \E hlo \in GatherInstructions :
         \E start \in [1..Len(hlo.start_index_map) ->
                          GatherStartSamples(hlo.start_type)],
            index \in Box(hlo.dims) :
            el' = [op |-> "gather", hlo |-> hlo, start |-> start,
                   index |-> index,
                   out |-> EmitElementalGather(hlo, start, index)]
    /\ pc' = "el_done"
    /\ UNCHANGED <<rp, ib, gen>>

NextGather == ElementalGather

SpecGather == InitEl /\ [][NextGather]_vars

CreateAdd(a, b) == (a + b) % IntSize
CreateMul(a, b) == (a * b) % IntSize
CreateFAdd(a, b) == a + b
CreateFSub(a, b) == a - b
CreateFMul(a, b) == a * b
EmitExtractReal(v) == v.re
EmitExtractImag(v) == v.im

\* llvm::Constant::getNullValue of the output element type.
GetNullValue(element_type) ==
    IF element_type = "complex" THEN [re |-> 0, im |-> 0] ELSE 0

DotLhsIndex(hlo, dot_result_index, ind_var) ==
    InsertAt([i \in 1..(Len(hlo.lhs_dims) - 1) |-> dot_result_index[i]],
             hlo.lhs_contracting_dim, ind_var)

\* Mutant of DotRhsIndex: the rhs components are taken from the start of
\* the output index.
DotRhsIndex_LeadingComponents(hlo, dot_result_index, ind_var) ==
    InsertAt([i \in 1..(Len(hlo.rhs_dims) - 1) |-> dot_result_index[i]],
             hlo.rhs_contracting_dim, ind_var)

DotRhsIndex(hlo, dot_result_index, ind_var) ==
    InsertAt([i \in 1..(Len(hlo.rhs_dims) - 1) |->
                 dot_result_index[Len(hlo.lhs_dims) - 1 + i]],
             hlo.rhs_contracting_dim, ind_var)

\* The loop body's accumulation.
NextAccumulator(element_type, current_accumulator, lhs_value, rhs_value) ==
    IF element_type = "complex"
    THEN LET product_real ==
                 CreateFSub(
                     CreateFMul(EmitExtractReal(lhs_value),
                                EmitExtractReal(rhs_value)),
                     CreateFMul(EmitExtractImag(lhs_value),
                                EmitExtractImag(rhs_value)))
             product_imag ==
                 CreateFAdd(
                     CreateFMul(EmitExtractReal(lhs_value),
                                EmitExtractImag(rhs_value)),
                     CreateFMul(EmitExtractImag(lhs_value),
                                EmitExtractReal(rhs_value)))
         IN  [re |-> CreateFAdd(EmitExtractReal(current_accumulator),
                                product_real),
              im |-> CreateFAdd(EmitExtractImag(current_accumulator),
                                product_imag)]
    ELSE IF element_type = "float"
    THEN CreateFAdd(current_accumulator, CreateFMul(lhs_value, rhs_value))
    ELSE CreateAdd(current_accumulator, CreateMul(lhs_value, rhs_value))

\* The inner loop from induction value ind_var on:
\* ForLoop(0, contracted_dim_size, 1) runs the body while the induction
\* variable is below contracted_dim_size.
RECURSIVE DotInnerLoop(_, _, _, _, _, _, _)
DotInnerLoop(hlo, lhs, rhs, dot_result_index, ind_var, accumulator, reads) ==
    IF ind_var >= hlo.lhs_dims[hlo.lhs_contracting_dim + 1]
    THEN [status |-> "ok", reads |-> reads, value |-> accumulator]
    ELSE LET lhs_index == DotLhsIndex(hlo, dot_result_index, IndexConst(ind_var))
             rhs_index == DotRhsIndex(hlo, dot_result_index, IndexConst(ind_var))
         IN  DotInnerLoop(hlo, lhs, rhs, dot_result_index, ind_var + 1,
                 NextAccumulator(hlo.element_type, accumulator,
                                 lhs[lhs_index], rhs[rhs_index]),
                 reads \o <<Read(0, lhs_index), Read(1, rhs_index)>>)

EmitElementalDot(hlo, lhs, rhs, dot_result_index) ==
    DotInnerLoop(hlo, lhs, rhs, dot_result_index, 0,
                 GetNullValue(hlo.element_type), <<>>)

(***************************************************************************)
(* Inputs of the dot specification.  Each operand has rank 1 or 2, its     *)
(* contracting dimension has an extent from 0 to MaxContract and its other *)
(* dimension an extent from 1 to MaxElems; the output has at least one     *)
(* dimension.  The operands' contents are literals whose element at a      *)
(* coordinate is fixed by the coordinate and a seed.                       *)
(***************************************************************************)
MaxContract == 3

\* The operands of one side: <<dims, contracting dimension>>.
DotOperands(T) ==
    {<<(<<T>>), 0>>}
      \cup {<<(<<e, T>>), 1>> : e \in 1..MaxElems}
      \cup {<<(<<T, e>>), 0>> : e \in 1..MaxElems}

DotInstructions ==
    {[lhs_dims |-> l[1], rhs_dims |-> r[1],
      lhs_contracting_dim |-> l[2], rhs_contracting_dim |-> r[2],
      element_type |-> ty] :
        <<l, r, ty>> \in
            UNION {DotOperands(T) \X DotOperands(T)
                       \X {"integer", "float", "complex"} :
                     T \in 0..MaxContract}}

\* A sequence without its element at 0-based position pos.
RemoveAt(seq, pos) == SubSeq(seq, 1, pos) \o SubSeq(seq, pos + 2, Len(seq))

\* The shape of a dot instruction: the lhs dimensions that are not
\* contracted, then those of the rhs.
DotShape(hlo) ==
    RemoveAt(hlo.lhs_dims, hlo.lhs_contracting_dim)
      \o RemoveAt(hlo.rhs_dims, hlo.rhs_contracting_dim)

\* The row-major position of a coordinate in a shape of extents up to
\* MaxElems.
LinearPosition(index) ==
    Sum([j \in 1..Len(index) |-> index[j] * ((MaxElems + 1) ^ (j - 1))])

\* The literal of a shape, an element type and a seed.
DotLiteral(dims, element_type, seed) ==
    [index \in Box(dims) |->
        IF element_type = "integer"
        THEN (IntSize - seed + 3 * LinearPosition(index)) % IntSize
        ELSE IF element_type = "float"
        THEN LinearPosition(index) + seed - 2
        ELSE [re |-> LinearPosition(index) + seed - 2,
              im |-> seed - LinearPosition(index)]]

\* One dot instruction evaluated at one coordinate of its output, for one
\* content of each operand.
ElementalDot ==
    /\ pc = "idle"
    /\ \E hlo \in DotInstructions :
         /\ Len(DotShape(hlo)) >= 1
         /\ \E lseed \in 0..2, rseed \in 0..2, index \in Box(DotShape(hlo)) :
              LET lhs == DotLiteral(hlo.lhs_dims, hlo.element_type, lseed)
                  rhs == DotLiteral(hlo.rhs_dims, hlo.element_type, rseed)
              IN  el' = [op |-> "dot", hlo |-> hlo,
                         start |-> <<lhs, rhs>>, index |-> index,
                         out |-> EmitElementalDot(hlo, lhs, rhs, index)]
    /\ pc' = "el_done"
    /\ UNCHANGED <<rp, ib, gen>>

NextDot == ElementalDot

SpecDot == InitEl /\ [][NextDot]_vars

\* The sum, in increasing t from t on, of the products the claim names,
\* added to acc with the arithmetic of the element type.
RECURSIVE SumOfProducts(_, _, _, _, _)
SumOfProducts(ty, T, l(_), r(_), acc) ==
    IF T = 0 THEN acc
    ELSE LET before == SumOfProducts(ty, T - 1, l, r, acc)
             a == l(T - 1)
             b == r(T - 1)
         IN  IF ty = "integer" THEN (before + a * b) % IntSize
             ELSE IF ty = "float" THEN before + a * b
             ELSE [re |-> before.re + (a.re * b.re - a.im * b.im),
                   im |-> before.im + (a.re * b.im + a.im * b.re)]

WordBits == 4
WordSize == 2 ^ WordBits
DWordSize == WordSize * WordSize

RECURSIVE CreateXor(_, _)
CreateXor(a, b) ==
    IF a = 0 THEN b
    ELSE IF b = 0 THEN a
    ELSE ((a + b) % 2) + 2 * CreateXor(a \div 2, b \div 2)

\* llvm_ir::SplitInt64ToInt32s: <<low word, high word>>.
SplitInt64ToInt32s(v) == <<v % WordSize, v \div WordSize>>

\* llvm_ir::UMulLowHigh32: <<low word, high word>> of the product.
UMulLowHigh32(a, b) == <<(a * b) % WordSize, (a * b) \div WordSize>>

\* 0x9E3779B9, 0xBB67AE85, 0xD2511F53 and 0xCD9E8D57, by their low bits.
philoxW32A == 2489 % WordSize
philoxW32B == 3717 % WordSize
philoxM4xW32A == 3923 % WordSize
philoxM4xW32B == 3415 % WordSize

\* The rounds of CalculateSampleValues from round on.
RECURSIVE PhiloxRounds(_, _, _)
PhiloxRounds(round, counter_values, key_values) ==
    IF round >= 10 THEN counter_values
    ELSE LET m0 == UMulLowHigh32(philoxM4xW32A, counter_values[1])
             lo0 == m0[1]
             hi0 == m0[2]
             m1 == UMulLowHigh32(philoxM4xW32B, counter_values[3])
             lo1 == m1[1]
             hi1 == m1[2]
         IN  PhiloxRounds(round + 1,
                 <<CreateXor(hi1, CreateXor(counter_values[2], key_values[1])),
                   lo1,
                   CreateXor(hi0, CreateXor(counter_values[4], key_values[2])),
                   lo0>>,
                 <<(key_values[1] + philoxW32A) % WordSize,
                   (key_values[2] + philoxW32B) % WordSize>>)

\* Mutant of CalculateSampleValues: counter[2] and counter[3] come from the
\* RNG state alone.
CalculateSampleValues_StateOnly(sample_idx, index_words, hlo_random_value, global_random_number, rng_state) ==
    PhiloxRounds(0,
        <<sample_idx % WordSize,
          IF index_words = 1 THEN 0 ELSE sample_idx \div WordSize,
          SplitInt64ToInt32s(rng_state)[1], SplitInt64ToInt32s(rng_state)[2]>>,
        SplitInt64ToInt32s(hlo_random_value))

\* index_words is the width of the index type in words (1 or 2).
CalculateSampleValues(sample_idx, index_words, hlo_random_value, global_random_number, rng_state) ==
    LET counter01 ==
            IF index_words = 1 THEN <<sample_idx, 0>>
            ELSE SplitInt64ToInt32s(sample_idx)
        counter23 ==
            SplitInt64ToInt32s(CreateXor(rng_state, global_random_number))
        key_values == SplitInt64ToInt32s(hlo_random_value)
    IN  PhiloxRounds(0,
            <<counter01[1], counter01[2], counter23[1], counter23[2]>>,
            key_values)

\* Elements per 128-bit sample.
GetNumberOfElementsPerPhiloxRngSample(elem_prim_ty) ==
    IF elem_prim_ty \in {"U32", "S32", "F32", "F16"} THEN 4
    ELSE IF elem_prim_ty \in {"U64", "S64", "F64"} THEN 2
    ELSE 0

(***************************************************************************)
(* StatusOr<llvm::Value*>: a value, or a failure with its code.            *)
(***************************************************************************)
Ok(v) == [value |-> v]
Unimplemented(message) == [error |-> "Unimplemented", message |-> message]
InvalidArgument(message) == [error |-> "InvalidArgument", message |-> message]
IsOk(status_or) == "value" \in DOMAIN status_or

(***************************************************************************)
(* ConvertValueForDistribution.  a_or_mean and b_or_sigma are the results  *)
(* of the two operand generators.  A floating-point value is a fraction    *)
(* [num, den]; the operands of a floating-point instruction are integers,  *)
(* on which the affine remap is exact.                                     *)
(***************************************************************************)
\* The significand widths of float and double, in the proportion of the
\* source's 24 of 32 and 53 of 64 bits.
FloatSignificandBits == (24 * WordBits) \div 32
DoubleSignificandBits == (53 * 2 * WordBits) \div 64

\* The number of bits of a natural number.
RECURSIVE BitLength(_)
BitLength(v) == IF v = 0 THEN 0 ELSE 1 + BitLength(v \div 2)

\* CreateUIToFP: the nearest value with the given number of significand
\* bits, ties to even.
CreateUIToFP(v, significand_bits) ==
    LET excess == BitLength(v) - significand_bits
    IN  IF excess <= 0 THEN v
        ELSE LET unit == 2 ^ excess
                 down == v - (v % unit)
                 rest == v % unit
             IN  IF 2 * rest > unit \/ (2 * rest = unit /\ (down \div unit) % 2 = 1)
                 THEN down + unit
                 ELSE down

\* CreateFPTrunc of a float to the element type: a half keeps
\* HalfSignificandBits of the significand (nearest, ties to even); the
\* values here are within the half's exponent range except for the
\* smallest fractions, which the scaled words do not reach.
HalfSignificandBits == (11 * WordBits) \div 32

CreateFPTrunc(v, elem_prim_ty) ==
    IF elem_prim_ty = "F16" THEN CreateUIToFP(v, HalfSignificandBits) ELSE v

\* Mutant of EmitErfInv: the type test is left out.
EmitErfInv_AnyType(prim_type, x) == Ok([erfinv |-> x])

\* The value of the F32 approximation is kept as the term erfinv(x).
EmitErfInv(prim_type, x) ==
    IF prim_type # "F32"
    THEN Unimplemented(<<"Inverse erf is only implemented for element type F32.">>)
    ELSE Ok([erfinv |-> x])

EmitErfcInv(prim_type, value) ==
    EmitErfInv(prim_type, [one_minus |-> value])

IsFloatingPointTy(elem_prim_ty) == elem_prim_ty \in {"F16", "F32", "F64"}

\* Mutant of ConvertValueForDistribution: the integer remainder is signed
\* (srem instead of urem) on one-word values.
ConvertValueForDistribution_SignedRem(hlo, a_or_mean, b_or_sigma, raw_value, raw_words) ==
    LET a == a_or_mean.value
        b == b_or_sigma.value
        elem_size == IF raw_words = 1 THEN WordSize ELSE DWordSize
        range == (b - a) % elem_size
        signed(v) == IF v >= elem_size \div 2 THEN v - elem_size ELSE v
    IN  IF IsFloatingPointTy(hlo.element_type)
        THEN Ok([num |-> 0, den |-> 1])
        ELSE IF range = 0 THEN Ok(Trap)
        ELSE Ok((a + TruncRem(signed(raw_value), signed(range))) % elem_size)

ConvertValueForDistribution(hlo, a_or_mean, b_or_sigma, raw_value, raw_words) ==
    IF ~IsOk(a_or_mean) THEN a_or_mean
    ELSE IF ~IsOk(b_or_sigma) THEN b_or_sigma
    ELSE
    LET a == a_or_mean.value
        b == b_or_sigma.value
        elem_value ==
            IF IsFloatingPointTy(hlo.element_type)
            THEN IF raw_words = 1
                 THEN [num |-> CreateFPTrunc(
                                   CreateUIToFP(raw_value, FloatSignificandBits),
                                   hlo.element_type),
                       den |-> WordSize]
                 ELSE [num |-> CreateUIToFP(raw_value, DoubleSignificandBits),
                       den |-> DWordSize]
            ELSE raw_value
        elem_size == IF raw_words = 1 THEN WordSize ELSE DWordSize
    IN  IF hlo.random_distribution = "RNG_UNIFORM"
        THEN IF IsFloatingPointTy(hlo.element_type)
             THEN Ok([num |-> (b - a) * elem_value.num + a * elem_value.den,
                      den |-> elem_value.den])
             ELSE LET range == (b - a) % elem_size
                  IN  IF range = 0 THEN Ok(Trap)
                      ELSE Ok((a + (elem_value % range)) % elem_size)
        ELSE IF hlo.random_distribution = "RNG_NORMAL"
        THEN LET r == EmitErfcInv(hlo.element_type,
                                  [twice |-> elem_value])
             IN  IF ~IsOk(r) THEN r
                 ELSE Ok([r |-> r.value, sigma |-> b, mean |-> a])
        ELSE InvalidArgument(<<"unhandled distribution">>)

(***************************************************************************)
(* MakePhiloxRngElementGenerator.  Making the generator draws the module   *)
(* random value from the instruction's module and, when the configured     *)
(* seed is 0, the global random number from the process-wide source; the   *)
(* closure keeps both, with the value rng_state the load of the state      *)
(* variable yields.  The random sources are fixed sequences of two-word    *)
(* values; every module's source starts from the same seed.                *)
(***************************************************************************)
\* HloModule::RandomNew64: the value after drawn earlier values.
RandomNew64(drawn) == (37 * drawn + 11) % DWordSize

\* GlobalRandomValue: the value after drawn earlier values.
GlobalRandomValue(drawn) == (DWordSize - 23 + 3 * drawn) % DWordSize

\* IrArray::Index::Linearize over row-major dimensions.
RECURSIVE Linearize(_, _)
Linearize(dims, multidim) ==
    IF multidim = <<>> THEN 0
    ELSE Linearize(SubSeq(dims, 1, Len(dims) - 1),
                   SubSeq(multidim, 1, Len(multidim) - 1)) * dims[Len(dims)]
           + multidim[Len(multidim)]

\* Mutant of CapturedGlobalRandomNumber: the global random number is
\* computed when the generator is called.
CapturedGlobalRandomNumber_PerCall(generator, process) ==
    IF process.seed # 0 THEN process.seed
    ELSE GlobalRandomValue(process.global_rng)

\* The global_random_number the closure captured by value.
CapturedGlobalRandomNumber(generator, process) ==
    generator.global_random_number

\* The closure MakePhiloxRngElementGenerator returns, called at index =
\* [multidim, linear, words] (linear is -1 when the index carries none;
\* words is the width of the index type) with the results a_or_mean and
\* b_or_sigma of the operand generators.
PhiloxRngElementGenerator(generator, process, index, a_or_mean, b_or_sigma) ==
    LET hlo == generator.hlo
        elems_per_sample ==
            GetNumberOfElementsPerPhiloxRngSample(hlo.element_type)
        elem_idx ==
            IF index.linear = 0 - 1 THEN Linearize(hlo.dims, index.multidim)
            ELSE index.linear
        sample_idx == elem_idx \div elems_per_sample
        elem_offset == elem_idx % elems_per_sample
        counter_values ==
            CHOOSE sample \in
                {CalculateSampleValues(sample_idx, index.words,
                     generator.hlo_random_value,
                     CapturedGlobalRandomNumber(generator, process),
                     generator.rng_state)} : TRUE
    IN  \* the load of element elem_offset of the stored sample, as a
        \* word or, for two elements per sample, as two words (low first)
        LET raw_elem_value ==
                CHOOSE raw \in
                    {IF elems_per_sample = 2
                     THEN counter_values[2 * elem_offset + 1]
                            + WordSize * counter_values[2 * elem_offset + 2]
                     ELSE counter_values[elem_offset + 1]} : TRUE
        IN  [raw |-> raw_elem_value,
             out |-> ConvertValueForDistribution(hlo, a_or_mean, b_or_sigma,
                         raw_elem_value,
                         IF elems_per_sample = 2 THEN 2 ELSE 1)]

(***************************************************************************)
(* The random-generator specification.  Generators of RNG instructions of  *)
(* two modules are made and called in any order, up to MaxGenerators       *)
(* generators and MaxCalls calls.                                          *)
(***************************************************************************)
RngModules == {1, 2}

MaxGenerators == 2
MaxCalls == 2

\* The configured seeds: none (0), and one.
ConfiguredSeeds == {0, 5}

\* The values of the RNG state variable: 0, and the difference of the
\* first two global random numbers.
RngStates == {0, CreateXor(GlobalRandomValue(0), GlobalRandomValue(1))}

\* Uniform instructions of shape [2,5] over [1,4): a 32-bit integer one in
\* the first module and a 32-bit floating-point one in the second.
RngInstructions ==
    {hlo \in [module : RngModules, element_type : {"U32", "F32"},
              random_distribution : {"RNG_UNIFORM"}, dims : {<<2, 5>>},
              a : {Ok(1)}, b : {Ok(4)}] :
        hlo.element_type = "F32" <=> hlo.module = 2}

\* The coordinates the generators are called at.
RngIndices ==
    {[multidim |-> <<0, 1>>, linear |-> 0 - 1, words |-> 1],
     [multidim |-> <<1, 2>>, linear |-> 7, words |-> 2]}

InitRng ==
    /\ pc = "idle"
    /\ rp = NoReducePrecision
    /\ ib = NoIntegerOp
    /\ el = NoElemental
    /\ \E seed \in ConfiguredSeeds :
         gen = [seed |-> seed, module_rng |-> [m \in RngModules |-> 0],
                global_rng |-> 0, generators |-> <<>>, calls |-> <<>>]

\* The process after a generator is made for hlo, with rng_state the
\* value the emitted load of the state variable yields.
MadePhiloxRngElementGenerator(process, hlo, rng_state) ==
    [process EXCEPT
        !.module_rng[hlo.module] = @ + 1,
        !.global_rng = IF process.seed # 0 THEN @ ELSE @ + 1,
        !.generators = Append(@,
            [hlo |-> hlo,
             hlo_random_value |-> RandomNew64(process.module_rng[hlo.module]),
             global_random_number |->
                 IF process.seed # 0 THEN process.seed
                 ELSE GlobalRandomValue(process.global_rng),
             rng_state |-> rng_state])]

\* Mutant of CalledPhiloxRngElementGenerator: a call draws a value from the
\* process-wide source.
CalledPhiloxRngElementGenerator_Draws(process, g, index, result) ==
    [process EXCEPT
        !.global_rng = @ + 1,
        !.calls = Append(@, [generator |-> g, index |-> index,
                             module_rng |-> process.module_rng,
                             global_rng |-> process.global_rng,
                             raw |-> result.raw, out |-> result.out])]

\* The process after generator g is called at index with the given result:
\* the call is recorded, with the numbers of values drawn so far.
CalledPhiloxRngElementGenerator(process, g, index, result) ==
    [process EXCEPT
        !.calls = Append(@, [generator |-> g, index |-> index,
                             module_rng |-> process.module_rng,
                             global_rng |-> process.global_rng,
                             raw |-> result.raw, out |-> result.out])]

MakePhiloxRngElementGenerator ==
    /\ Len(gen.generators) < MaxGenerators
    /\ \E hlo \in RngInstructions, rng_state \in RngStates :
         gen' = MadePhiloxRngElementGenerator(gen, hlo, rng_state)
    /\ pc' = "rng"
    /\ UNCHANGED <<rp, ib, el>>

CallPhiloxRngElementGenerator ==
    /\ Len(gen.calls) < MaxCalls
    /\ \E g \in 1..Len(gen.generators), index \in RngIndices :
         \E result \in {PhiloxRngElementGenerator(gen.generators[g], gen,
                             index, gen.generators[g].hlo.a,
                             gen.generators[g].hlo.b)} :
            gen' = CalledPhiloxRngElementGenerator(gen, g, index, result)
    /\ pc' = "rng"
    /\ UNCHANGED <<rp, ib, el>>

NextRng == MakePhiloxRngElementGenerator \/ CallPhiloxRngElementGenerator

SpecRng == InitRng /\ [][NextRng]_vars

\* The linear element index of a call.
LinearElementIndex(call) ==
    IF call.index.linear = 0 - 1
    THEN Linearize(gen.generators[call.generator].hlo.dims,
                   call.index.multidim)
    ELSE call.index.linear

\* C14: two calls of RNG generators with the same module random value,
\* global random number, RNG state value, instruction type, distribution
\* and distribution operands at the same output coordinate give the same
\* output; and two calls with the same module random value, the same XOR
\* of global random number and RNG state and the same linear element index
\* give the same raw word.
C14_PhiloxDeterminism ==
    \A i, j \in 1..Len(gen.calls) :
        LET c1 == gen.calls[i]
            c2 == gen.calls[j]
            g1 == gen.generators[c1.generator]
            g2 == gen.generators[c2.generator]
        IN  /\ (/\ g1.hlo_random_value = g2.hlo_random_value
                /\ g1.global_random_number = g2.global_random_number
                /\ g1.rng_state = g2.rng_state
                /\ g1.hlo.element_type = g2.hlo.element_type
                /\ g1.hlo.random_distribution = g2.hlo.random_distribution
                /\ g1.hlo.dims = g2.hlo.dims
                /\ g1.hlo.a = g2.hlo.a
                /\ g1.hlo.b = g2.hlo.b
                /\ c1.index.multidim = c2.index.multidim)
               => (c1.out = c2.out /\ c1.raw = c2.raw)
            /\ (/\ g1.hlo_random_value = g2.hlo_random_value
                /\ CreateXor(g1.global_random_number, g1.rng_state)
                     = CreateXor(g2.global_random_number, g2.rng_state)
                /\ LinearElementIndex(c1) = LinearElementIndex(c2))
               => c1.raw = c2.raw

\* One generator called twice at the same coordinate, a second generator
\* having been made between the calls; the second generator has the same
\* module random value and the same XOR from another global random number
\* and another RNG state.
C14_Witness ==
    /\ Len(gen.calls) = 2
    /\ Len(gen.generators) = 2
    /\ gen.calls[1].generator = 1
    /\ gen.calls[2].generator = 1
    /\ gen.calls[1].index = gen.calls[2].index
    /\ gen.calls[1].global_rng < gen.calls[2].global_rng
    /\ gen.calls[1].raw = gen.calls[2].raw
    /\ gen.generators[1].hlo_random_value = gen.generators[2].hlo_random_value
    /\ gen.generators[1].rng_state # gen.generators[2].rng_state
    /\ CreateXor(gen.generators[1].global_random_number,
                 gen.generators[1].rng_state)
         = CreateXor(gen.generators[2].global_random_number,
                     gen.generators[2].rng_state)

\* C20: the module's and the process-wide random source are as they were
\* at every earlier call of an element generator: once a generator has
\* been called, no later step draws from them, in any order of making and
\* calling generators.
C20_RandomStateImmutable ==
    \A i \in 1..Len(gen.calls) :
        /\ gen.calls[i].module_rng = gen.module_rng
        /\ gen.calls[i].global_rng = gen.global_rng

\* C20, amended: a call of an element generator draws from neither source
\* and changes neither the configured seed nor any generator; the values a
\* generator captured when it was made never change; the sources advance
\* only when a generator is made, also after calls.
C20_CallsOnlyRead ==
    [][/\ Len(gen'.calls) > Len(gen.calls)
          => /\ gen'.module_rng = gen.module_rng
             /\ gen'.global_rng = gen.global_rng
             /\ gen'.seed = gen.seed
             /\ gen'.generators = gen.generators
       /\ gen'.seed = gen.seed
       /\ \A g \in 1..Len(gen.generators) :
            /\ g <= Len(gen'.generators)
            /\ gen'.generators[g] = gen.generators[g]
       /\ (gen'.module_rng # gen.module_rng \/ gen'.global_rng # gen.global_rng)
          => Len(gen'.generators) > Len(gen.generators)]_vars

\* A generator was called, a second generator was then made, drawing from
\* both sources, and the first was called again.
C20_Witness ==
    /\ Len(gen.calls) = 2
    /\ Len(gen.generators) = 2
    /\ gen.calls[1].generator = 1
    /\ gen.calls[2].generator = 1
    /\ gen.calls[1].global_rng < gen.calls[2].global_rng
    /\ gen.calls[1].module_rng # gen.calls[2].module_rng
    /\ gen.calls[2].global_rng = gen.global_rng
    /\ gen.generators[1].hlo.module = gen.generators[2].hlo.module

(***************************************************************************)
(* MakeElementGenerator and the generators it returns.  An operand         *)
(* generator of operand_to_generator is the StatusOr it yields when it is  *)
(* invoked: a value, or the failure it reports.  A successful emission     *)
(* yields the emitted term [opcode, operands].  Whether an operand         *)
(* generator fails does not depend on the index it is invoked with.        *)
(***************************************************************************)
\* operand_to_generator.at(hlo->operand(operand))(...)
At(operand_to_generator, operand) == operand_to_generator[operand + 1]

\* A chain of TF_ASSIGN_OR_RETURN over the results of invocations made in
\* this order: the first failure, or the values.
RECURSIVE AssignOrReturn(_, _)
AssignOrReturn(results, values) ==
    IF results = <<>> THEN Ok(values)
    ELSE IF ~IsOk(Head(results)) THEN Head(results)
    ELSE AssignOrReturn(Tail(results), Append(values, Head(results).value))

\* The term an emitter builds from the values of its operands.
Emitted(opcode, operands) == [opcode |-> opcode, operands |-> operands]

ElementIsIntegral(element_type) ==
    element_type \in {"S32", "U32", "S64", "U64"}

IsComplexType(element_type) == element_type = "C64"

\* The opcodes of the unary and of the binary case of MakeElementGenerator.
UnaryOpcodes ==
    {"abs", "round-nearest-afz", "ceil", "clz", "convert", "bitcast-convert",
     "copy", "cosine", "exponential", "exponential-minus-one", "floor",
     "imag", "is-finite", "log", "log-plus-one", "negate", "not", "real",
     "sign", "sine", "tanh"}

BinaryOpcodes ==
    {"add", "and", "atan2", "complex", "divide", "equal-to",
     "greater-than-or-equal-to", "greater-than", "less-than-or-equal-to",
     "less-than", "maximum", "minimum", "multiply", "not-equal-to", "or",
     "xor", "power", "remainder", "shift-left", "shift-right-arithmetic",
     "shift-right-logical", "subtract"}

\* The opcodes whose generator invokes the generator of operand 0 at a
\* remapped index and returns its result.
IndexRemapOpcodes ==
    {"reverse", "broadcast", "slice", "bitcast", "reshape", "transpose"}

\* Mutant of EmitAtan2: the call of an intrinsic, as EmitExp.
EmitAtan2_Intrinsic(prim_type, lhs, rhs) == Ok(Emitted("atan2", <<lhs, rhs>>))

EmitAtan2(prim_type, lhs, rhs) == Unimplemented(<<"atan2">>)

\* The emitters that call an intrinsic.
EmitLog(prim_type, value) == Ok(Emitted("log", <<value>>))
EmitPow(prim_type, lhs, rhs) == Ok(Emitted("power", <<lhs, rhs>>))
EmitSin(prim_type, value) == Ok(Emitted("sine", <<value>>))
EmitCos(prim_type, value) == Ok(Emitted("cosine", <<value>>))

\* Mutant of EmitTanh: the call of an intrinsic, as EmitExp.
EmitTanh_Intrinsic(prim_type, value) == Ok(Emitted("tanh", <<value>>))

EmitTanh(prim_type, value) == Unimplemented(<<"tanh">>)

EmitExp(prim_type, value) == Ok(Emitted("exponential", <<value>>))

\* The unary emitters, on the opcodes negate, exponential and tanh (and,
\* for a complex operand, log and log-plus-one) and on the opcodes their
\* switch does not list.
EmitIntegerUnaryOp(op, operand_value) ==
    IF op.opcode = "negate" THEN Ok(Emitted("negate", <<operand_value>>))
    ELSE Unimplemented(<<"unary integer op '%s'", op.opcode>>)

EmitFloatUnaryOp(op, operand_value) ==
    CASE op.opcode = "exponential" -> EmitExp(op.element_type, operand_value)
      [] op.opcode = "tanh" -> EmitTanh(op.element_type, operand_value)
      [] op.opcode = "negate" -> Ok(Emitted("negate", <<operand_value>>))
      [] OTHER -> Unimplemented(<<"unary floating-point op '%s'", op.opcode>>)

EmitComplexUnaryOp(op, operand_value) ==
    CASE op.opcode = "exponential" ->
            LET exp_a == EmitExp("F32", [real |-> operand_value])
            IN  IF ~IsOk(exp_a) THEN exp_a
                ELSE Ok(Emitted("exponential", <<operand_value>>))
      [] op.opcode = "tanh" ->
            LET exp_a == EmitExp("F32", [real |-> operand_value])
            IN  IF ~IsOk(exp_a) THEN exp_a
                ELSE Ok(Emitted("tanh", <<operand_value>>))
      [] op.opcode = "negate" -> Ok(Emitted("negate", <<operand_value>>))
      [] op.opcode = "log" ->
            \* log(a+bi) = .5*log(a^2+b^2) + i*atan2(b, a)
            LET a == [real |-> operand_value]
                b == [imag |-> operand_value]
                results == AssignOrReturn(
                    <<EmitLog("F32", [sum_sq |-> <<a, b>>]),
                      EmitAtan2("F32", b, a)>>, <<>>)
            IN  IF ~IsOk(results) THEN results
                ELSE Ok(Emitted("complex", results.value))
      [] op.opcode = "log-plus-one" ->
            \* log1p(a+bi) = .5*log((a+1)^2+b^2) + i*atan2(b, a + 1)
            LET a_plus_one == [real_plus_one |-> operand_value]
                b == [imag |-> operand_value]
                results == AssignOrReturn(
                    <<EmitLog("F32", [sum_sq |-> <<a_plus_one, b>>]),
                      EmitAtan2("F32", b, a_plus_one)>>, <<>>)
            IN  IF ~IsOk(results) THEN results
                ELSE Ok(Emitted("complex", results.value))
      [] OTHER -> Unimplemented(<<"unary complex op '%s'", op.opcode>>)

EmitUnaryOp(op, operand_value) ==
    IF op.opcode = "copy" THEN Ok(operand_value)
    ELSE IF ElementIsIntegral(op.operand_type) \/ op.operand_type = "PRED"
    THEN EmitIntegerUnaryOp(op, operand_value)
    ELSE IF IsComplexType(op.operand_type)
    THEN EmitComplexUnaryOp(op, operand_value)
    ELSE EmitFloatUnaryOp(op, operand_value)

\* The binary emitters, on the opcodes add and atan2 (and, for complex
\* operands, power) and on the opcodes their switch does not list.
EmitIntegerBinaryOpcode(op, lhs_value, rhs_value) ==
    IF op.opcode = "add" THEN Ok(Emitted("add", <<lhs_value, rhs_value>>))
    ELSE Unimplemented(<<"binary integer op '%s'", op.opcode>>)

EmitFloatBinaryOpcode(op, lhs_value, rhs_value) ==
    CASE op.opcode = "add" -> Ok(Emitted("add", <<lhs_value, rhs_value>>))
      [] op.opcode = "atan2" -> EmitAtan2(op.element_type, lhs_value, rhs_value)
      [] OTHER -> Unimplemented(<<"binary floating point op '%s'", op.opcode>>)

EmitComplexBinaryOp(op, lhs_value, rhs_value) ==
    IF op.opcode = "add" THEN Ok(Emitted("add", <<lhs_value, rhs_value>>))
    ELSE IF op.opcode = "power"
    THEN \* the emitters are called in this order, each under
         \* TF_ASSIGN_OR_RETURN
         LET a == [real |-> lhs_value]
             b == [imag |-> lhs_value]
             aa_p_bb == [sum_sq |-> <<a, b>>]
             aa_p_bb_to_half_c ==
                 EmitPow("F32", aa_p_bb, [half_real |-> rhs_value])
             arg_lhs == EmitAtan2("F32", b, a)
         IN  IF ~IsOk(aa_p_bb_to_half_c) THEN aa_p_bb_to_half_c
             ELSE IF ~IsOk(arg_lhs) THEN arg_lhs
             ELSE LET results == AssignOrReturn(
                          <<EmitExp("F32", [neg_d_arg_lhs |-> arg_lhs.value]),
                            EmitLog("F32", aa_p_bb),
                            EmitCos("F32", [q |-> arg_lhs.value]),
                            EmitSin("F32", [q |-> arg_lhs.value])>>, <<>>)
                  IN  IF ~IsOk(results) THEN results
                      ELSE Ok(Emitted("complex",
                                      <<aa_p_bb_to_half_c.value>>
                                          \o results.value))
    ELSE Unimplemented(<<"binary complex op '%s'", op.opcode>>)

EmitBinaryOp(op, lhs_value, rhs_value) ==
    IF ElementIsIntegral(op.operand_type) \/ op.operand_type = "PRED"
    THEN EmitIntegerBinaryOpcode(op, lhs_value, rhs_value)
    ELSE IF IsComplexType(op.operand_type)
    THEN EmitComplexBinaryOp(op, lhs_value, rhs_value)
    ELSE EmitFloatBinaryOpcode(op, lhs_value, rhs_value)

\* Mutant of EmitReducePrecision: the type test is left out.
EmitReducePrecision_AnyType(hlo, x) == Ok(Emitted("reduce-precision", <<x>>))

EmitReducePrecision(hlo, x) ==
    IF hlo.operand_type # "F32"
    THEN Unimplemented(<<"reduce-precision only implemented for F32">>)
    ELSE Ok(Emitted("reduce-precision", <<x>>))

\* Mutant of EmitElementalSelect: the result of the on_false generator is
\* used unchecked.
EmitElementalSelect_UncheckedOnFalse(hlo, operand_to_generator) ==
    LET values == AssignOrReturn(<<At(operand_to_generator, 0),
                                   At(operand_to_generator, 1)>>, <<>>)
    IN  IF ~IsOk(values) THEN values
        ELSE Ok(Emitted("select",
                        values.value \o <<At(operand_to_generator, 2)>>))

EmitElementalSelect(hlo, operand_to_generator) ==
    LET values == AssignOrReturn(<<At(operand_to_generator, 0),
                                   At(operand_to_generator, 1),
                                   At(operand_to_generator, 2)>>, <<>>)
    IN  IF ~IsOk(values) THEN values
        ELSE Ok(Emitted("select", values.value))

EmitElementalClamp(hlo, operand_to_generator) ==
    LET values == AssignOrReturn(<<At(operand_to_generator, 0),
                                   At(operand_to_generator, 1),
                                   At(operand_to_generator, 2)>>, <<>>)
    IN  IF ~IsOk(values) THEN values
        ELSE IF IsFloatingPointTy(hlo.element_type)
                \/ ElementIsIntegral(hlo.element_type)
        THEN Ok(Emitted("clamp", values.value))
        ELSE Unimplemented(<<"Clamp unimplemented for %s", hlo.element_type>>)

\* The emission of the structured emitters: the operand generators they
\* invoke, in the order of the emission.  Both blocks of a conditional are
\* emitted, and the body of an emitted loop once.
ConcatenateEmission(hlo, operand_to_generator) ==
    LET values ==
          AssignOrReturn([operand_idx \in 1..hlo.operand_count |->
                             At(operand_to_generator, operand_idx - 1)], <<>>)
    IN  IF ~IsOk(values) THEN values
        ELSE Ok(Emitted("concatenate", values.value))

DynamicSliceEmission(hlo, operand_to_generator) ==
    LET starts == AssignOrReturn([i \in 1..hlo.rank |->
                                     At(operand_to_generator, 1)], <<>>)
    IN  IF ~IsOk(starts) THEN starts
        ELSE At(operand_to_generator, 0)

GatherEmission(hlo, operand_to_generator) ==
    LET components ==
          AssignOrReturn([i \in 1..hlo.index_vector_size |->
                             At(operand_to_generator, 1)], <<>>)
    IN  IF ~IsOk(components) THEN components
        ELSE At(operand_to_generator, 0)

DynamicUpdateSliceEmission(hlo, operand_to_generator) ==
    LET values ==
          AssignOrReturn([i \in 1..hlo.rank |-> At(operand_to_generator, 2)]
                            \o <<At(operand_to_generator, 1),
                                 At(operand_to_generator, 0)>>, <<>>)
    IN  IF ~IsOk(values) THEN values
        ELSE Ok(Emitted("dynamic-update-slice",
                        SubSeq(values.value, hlo.rank + 1, hlo.rank + 2)))

PadEmission(hlo, operand_to_generator) ==
    LET values == AssignOrReturn(<<At(operand_to_generator, 0),
                                   At(operand_to_generator, 1)>>, <<>>)
    IN  IF ~IsOk(values) THEN values
        ELSE Ok(Emitted("pad", values.value))

DotEmission(hlo, operand_to_generator) ==
    LET values == AssignOrReturn(<<At(operand_to_generator, 0),
                                   At(operand_to_generator, 1)>>, <<>>)
    IN  IF ~IsOk(values) THEN values
        ELSE Ok(Emitted("dot", values.value))

\* The process a generator is made in: a seed is configured and nothing
\* has been drawn.
FreshProcess ==
    [seed |-> 5, module_rng |-> [m \in RngModules |-> 0], global_rng |-> 0,
     generators |-> <<>>, calls |-> <<>>]

\* MakeElementGenerator returns a generator, never a status: the closure
\* with the instruction and the operand generators it captures and, for an
\* RNG instruction, the values MakePhiloxRngElementGenerator captures.
MadeElementGenerator(process, hlo, operand_to_generator) ==
    [made |-> Ok("generator"),
     hlo |-> hlo, operand_to_generator |-> operand_to_generator,
     philox |-> IF hlo.opcode = "rng"
                THEN MadePhiloxRngElementGenerator(process, hlo, 0).generators[1]
                ELSE <<>>]

\* Mutant of DefaultElementGenerator: the generator of operand 0 is invoked
\* first.
DefaultElementGenerator_InvokesOperand(hlo, operand_to_generator) ==
    IF ~IsOk(At(operand_to_generator, 0))
    THEN At(operand_to_generator, 0)
    ELSE Unimplemented(<<"Unhandled opcode for elemental IR emission: %s",
                         hlo.opcode>>)

\* The generator of the default case: it captures the instruction only.
DefaultElementGenerator(hlo, operand_to_generator) ==
    Unimplemented(<<"Unhandled opcode for elemental IR emission: %s",
                    hlo.opcode>>)

\* The invocation of a generator MakeElementGenerator returned.
ElementGenerator(generator, process, index) ==
    LET hlo == generator.hlo
        operand_to_generator == generator.operand_to_generator
    IN  CASE hlo.opcode \in UnaryOpcodes ->
               LET operand_value == At(operand_to_generator, 0)
               IN  IF ~IsOk(operand_value) THEN operand_value
                   ELSE EmitUnaryOp(hlo, operand_value.value)
          [] hlo.opcode \in BinaryOpcodes ->
               LET lhs_value == At(operand_to_generator, 0)
                   rhs_value == At(operand_to_generator, 1)
               IN  IF ~IsOk(lhs_value) THEN lhs_value
                   ELSE IF ~IsOk(rhs_value) THEN rhs_value
                   ELSE EmitBinaryOp(hlo, lhs_value.value, rhs_value.value)
          [] hlo.opcode = "select" ->
               EmitElementalSelect(hlo, operand_to_generator)
          [] hlo.opcode = "clamp" ->
               EmitElementalClamp(hlo, operand_to_generator)
          [] hlo.opcode = "reduce-precision" ->
               LET operand_value == At(operand_to_generator, 0)
               IN  IF ~IsOk(operand_value) THEN operand_value
                   ELSE EmitReducePrecision(hlo, operand_value.value)
          [] hlo.opcode = "concatenate" ->
               ConcatenateEmission(hlo, operand_to_generator)
          [] hlo.opcode \in IndexRemapOpcodes ->
               At(operand_to_generator, 0)
          [] hlo.opcode = "dynamic-slice" ->
               DynamicSliceEmission(hlo, operand_to_generator)
          [] hlo.opcode = "gather" ->
               GatherEmission(hlo, operand_to_generator)
          [] hlo.opcode = "dynamic-update-slice" ->
               DynamicUpdateSliceEmission(hlo, operand_to_generator)
          [] hlo.opcode = "rng" ->
               PhiloxRngElementGenerator(generator.philox, process, index,
                   At(operand_to_generator, 0),
                   At(operand_to_generator, 1)).out
          [] hlo.opcode = "pad" ->
               PadEmission(hlo, operand_to_generator)
          [] hlo.opcode = "dot" ->
               DotEmission(hlo, operand_to_generator)
          [] OTHER -> DefaultElementGenerator(hlo, operand_to_generator)


(***************************************************************************)
(* The generator specification.  A generator is made in a fresh process    *)
(* for an instruction and operand generators, and the generator made last  *)
(* is invoked at a coordinate; the state keeps that generator and its last *)
(* invocation.                                                             *)
(***************************************************************************)
\* The failure the generator of an operand reports.
OperandFailure(operand) == InvalidArgument(<<"operand %d", operand>>)

\* The operand generators of an instruction: each yields a value or fails.
OperandGenerators(hlo) ==
    {operand_to_generator \in
        [1..hlo.operand_count ->
            UNION {{Ok(k), OperandFailure(k - 1)} : k \in 1..hlo.operand_count}] :
        \A k \in 1..hlo.operand_count :
            operand_to_generator[k] \in {Ok(k), OperandFailure(k - 1)}}

GenInstruction(opcode, operand_type, operand_count, rank, distribution) ==
    [opcode |-> opcode, operand_type |-> operand_type,
     element_type |-> operand_type, operand_count |-> operand_count,
     rank |-> rank, index_vector_size |-> rank,
     random_distribution |-> distribution, module |-> 1, dims |-> <<2, 5>>]

\* The instructions of shape [2,5] generators are made for: elementwise
\* ones of four operand types, the structured ones, RNG instructions, and
\* instructions of opcodes the switch of MakeElementGenerator does not list.
GenInstructions ==
    {GenInstruction(opcode, ty, 1, 0, "") :
        opcode \in {"copy", "negate", "exponential", "tanh",
                    "reduce-precision"},
        ty \in {"S32", "F32", "F64", "C64"}}
    \cup {GenInstruction(opcode, ty, 2, 0, "") :
        opcode \in {"add", "atan2"}, ty \in {"S32", "F32", "F64", "C64"}}
    \cup {GenInstruction(opcode, ty, 3, 0, "") :
        opcode \in {"select", "clamp"}, ty \in {"S32", "F32", "C64"}}
    \cup {GenInstruction("concatenate", "F32", n, 0, "") : n \in 1..MaxOperands}
    \cup {GenInstruction(opcode, "F32", 1, 0, "") :
        opcode \in {"reverse", "broadcast"}}
    \cup {GenInstruction(opcode, "F32", 2, rank, "") :
        opcode \in {"dynamic-slice"}, rank \in 0..MaxRank}
    \cup {GenInstruction("gather", "F32", 2, rank, "") : rank \in 1..MaxRank}
    \cup {GenInstruction("dynamic-update-slice", "F32", 3, rank, "") :
        rank \in 0..MaxRank}
    \cup {GenInstruction(opcode, "F32", 2, 0, "") : opcode \in {"pad", "dot"}}
    \cup {GenInstruction("rng", ty, 2, 0, distribution) :
        ty \in {"U32", "F32", "F64"},
        distribution \in {"RNG_UNIFORM", "RNG_NORMAL"}}
    \cup {GenInstruction(opcode, "F32", 2, 0, "") :
        opcode \in {"convolution", "reduce", "map", "sort"}}
    \cup {GenInstruction(opcode, "C64", 1, 0, "") :
        opcode \in {"log", "log-plus-one"}}
    \cup {GenInstruction("power", "C64", 2, 0, "")}

InitGen ==
    /\ pc = "idle"
    /\ rp = NoReducePrecision
    /\ ib = NoIntegerOp
    /\ el = NoElemental
    /\ gen = FreshProcess

MakeElementGenerator ==
    /\ \E hlo \in GenInstructions :
         \E operand_to_generator \in OperandGenerators(hlo) :
            gen' = [(IF hlo.opcode = "rng"
                     THEN MadePhiloxRngElementGenerator(FreshProcess, hlo, 0)
                     ELSE FreshProcess)
                    EXCEPT !.generators =
                        <<MadeElementGenerator(FreshProcess, hlo,
                                               operand_to_generator)>>]
    /\ pc' = "gen"
    /\ UNCHANGED <<rp, ib, el>>

CallElementGenerator ==
    /\ gen.generators # <<>>
    /\ \E index \in RngIndices :
         \E result \in {ElementGenerator(gen.generators[1], gen, index)} :
            gen' = [gen EXCEPT !.calls = <<[generator |-> 1, index |-> index,
                                            result |-> result]>>]
    /\ pc' = "gen"
    /\ UNCHANGED <<rp, ib, el>>

NextGen == MakeElementGenerator \/ CallElementGenerator

SpecGen == InitGen /\ [][NextGen]_vars

\* The opcodes the switch of MakeElementGenerator lists.
HandledOpcodes ==
    UnaryOpcodes \cup BinaryOpcodes \cup IndexRemapOpcodes
        \cup {"select", "clamp", "reduce-precision", "concatenate",
              "dynamic-slice", "gather", "dynamic-update-slice", "rng", "pad",
              "dot"}

\* C15: for an instruction whose opcode the dispatch does not handle,
\* making the generator succeeds, and every invocation of the generator
\* reports Unimplemented naming the opcode, whatever the coordinate and
\* whatever the operand generators would report.
C15_LazyUnimplemented ==
    \A g \in 1..Len(gen.generators) :
        gen.generators[g].hlo.opcode \notin HandledOpcodes =>
            /\ IsOk(gen.generators[g].made)
            /\ \A c \in 1..Len(gen.calls) :
                  gen.calls[c].generator = g =>
                     /\ ~IsOk(gen.calls[c].result)
                     /\ gen.calls[c].result.error = "Unimplemented"
                     /\ gen.calls[c].result.message[2]
                            = gen.generators[g].hlo.opcode

\* C15 happens: the generator of a convolution whose first operand
\* generator fails has been invoked at the coordinate (1, 2).
C15_Witness ==
    /\ Len(gen.generators) = 1
    /\ Len(gen.calls) = 1
    /\ gen.generators[1].hlo.opcode = "convolution"
    /\ ~IsOk(gen.generators[1].operand_to_generator[1])
    /\ gen.calls[1].index.multidim = <<1, 2>>
    /\ ~IsOk(gen.calls[1].result)

\* The operands whose generator the emission of an instruction may invoke.
InvokedOperands(hlo) ==
    CASE hlo.opcode \in UnaryOpcodes \cup IndexRemapOpcodes
                           \cup {"reduce-precision"} -> {0}
      [] hlo.opcode \in BinaryOpcodes \cup {"pad", "dot", "rng", "gather"} ->
            {0, 1}
      [] hlo.opcode \in {"select", "clamp"} -> {0, 1, 2}
      [] hlo.opcode = "concatenate" -> 0..(hlo.operand_count - 1)
      [] hlo.opcode = "dynamic-slice" ->
            IF hlo.rank = 0 THEN {0} ELSE {0, 1}
      [] hlo.opcode = "dynamic-update-slice" ->
            IF hlo.rank = 0 THEN {0, 1} ELSE {0, 1, 2}
      [] OTHER -> {}

\* C16: when an operand generator that the emission of a composite
\* operation invokes reports a failure, the invocation of the operation's
\* generator reports a failure too, and it is the failure of one of those
\* operand generators, unchanged.
C16_FailurePropagates ==
    \A c \in 1..Len(gen.calls) :
        LET generator == gen.generators[gen.calls[c].generator]
            failures ==
                {generator.operand_to_generator[k + 1] :
                    k \in {o \in InvokedOperands(generator.hlo) :
                             ~IsOk(generator.operand_to_generator[o + 1])}}
        IN  failures # {} =>
               /\ ~IsOk(gen.calls[c].result)
               /\ gen.calls[c].result \in failures

\* C16 happens: a select whose on_false generator alone fails has been
\* invoked and reports that generator's failure.
C16_Witness ==
    /\ Len(gen.generators) = 1
    /\ Len(gen.calls) = 1
    /\ gen.generators[1].hlo.opcode = "select"
    /\ IsOk(gen.generators[1].operand_to_generator[1])
    /\ IsOk(gen.generators[1].operand_to_generator[2])
    /\ ~IsOk(gen.generators[1].operand_to_generator[3])
    /\ gen.calls[1].result = OperandFailure(2)

\* The instruction is one of the combinations the base emitter does not
\* support: atan2 on real operands, tanh on a real floating-point operand,
\* the inverse error function (reached by a normal distribution) on an
\* element type other than F32, reduce-precision on an operand type other
\* than F32.
UnsupportedByBaseEmitter(hlo) ==
    \/ hlo.opcode = "atan2" /\ ~IsComplexType(hlo.operand_type)
    \/ hlo.opcode = "tanh" /\ IsFloatingPointTy(hlo.operand_type)
    \/ /\ hlo.opcode = "rng"
       /\ hlo.random_distribution = "RNG_NORMAL"
       /\ hlo.element_type # "F32"
    \/ hlo.opcode = "reduce-precision" /\ hlo.operand_type # "F32"

\* C17: the generator of an unsupported combination of operator and type,
\* invoked with operand generators that all succeed, reports Unimplemented
\* and emits no value.
C17_UnsupportedReportsUnimplemented ==
    \A c \in 1..Len(gen.calls) :
        LET generator == gen.generators[gen.calls[c].generator]
        IN  (/\ UnsupportedByBaseEmitter(generator.hlo)
             /\ \A k \in 1..Len(generator.operand_to_generator) :
                   IsOk(generator.operand_to_generator[k]))
            => /\ ~IsOk(gen.calls[c].result)
               /\ gen.calls[c].result.error = "Unimplemented"

\* C17 happens: tanh on an F32 operand whose generator succeeds has been
\* invoked and reports Unimplemented.
C17_Witness ==
    /\ Len(gen.generators) = 1
    /\ Len(gen.calls) = 1
    /\ \A k \in 1..Len(gen.generators[1].operand_to_generator) :
          IsOk(gen.generators[1].operand_to_generator[k])
    /\ gen.generators[1].hlo.opcode = "tanh"
    /\ gen.generators[1].hlo.operand_type = "F32"
    /\ gen.calls[1].result = Unimplemented(<<"tanh">>)

(***************************************************************************)
(* The comparisons of EmitFloatBinaryOp on F32 bit patterns.  Each opcode  *)
(* selects an LLVM fcmp predicate; an ordered predicate is false and an    *)
(* unordered one true when an operand is NaN.                              *)
(***************************************************************************)
\* The position of a non-NaN pattern in the order of the values: both
\* zeros are at 0.
OrderKey(w) == IF SignOf(w) = 1 THEN 0 - Magnitude(w) ELSE Magnitude(w)

\* llvm fcmp.
CreateFCmp(predicate, lhs, rhs) ==
    LET unordered == IsNaN(lhs) \/ IsNaN(rhs)
        l == OrderKey(lhs)
        r == OrderKey(rhs)
    IN  CASE predicate = "FCMP_OEQ" -> ~unordered /\ l = r
          [] predicate = "FCMP_ONE" -> ~unordered /\ l # r
          [] predicate = "FCMP_UNE" -> unordered \/ l # r
          [] predicate = "FCMP_OLT" -> ~unordered /\ l < r
          [] predicate = "FCMP_OGT" -> ~unordered /\ l > r
          [] predicate = "FCMP_OLE" -> ~unordered /\ l <= r
          [] predicate = "FCMP_OGE" -> ~unordered /\ l >= r

\* llvm_ir::EmitComparison: the comparison, widened to the PRED type.
EmitComparison(predicate, lhs_value, rhs_value) ==
    IF CreateFCmp(predicate, lhs_value, rhs_value) THEN 1 ELSE 0

ComparisonOpcodes ==
    {"equal-to", "not-equal-to", "less-than", "greater-than",
     "less-than-or-equal-to", "greater-than-or-equal-to"}

\* Mutant of FloatComparisonPredicate: kNe is ordered as the others.
FloatComparisonPredicate_OrderedNe(opcode) ==
    CASE opcode = "equal-to" -> "FCMP_OEQ"
      [] opcode = "not-equal-to" -> "FCMP_ONE"
      [] opcode = "less-than" -> "FCMP_OLT"
      [] opcode = "greater-than" -> "FCMP_OGT"
      [] opcode = "less-than-or-equal-to" -> "FCMP_OLE"
      [] opcode = "greater-than-or-equal-to" -> "FCMP_OGE"

\* The predicate of each comparison case of EmitFloatBinaryOp.
FloatComparisonPredicate(opcode) ==
    CASE opcode = "equal-to" -> "FCMP_OEQ"
      [] opcode = "not-equal-to" -> "FCMP_UNE"
      [] opcode = "less-than" -> "FCMP_OLT"
      [] opcode = "greater-than" -> "FCMP_OGT"
      [] opcode = "less-than-or-equal-to" -> "FCMP_OLE"
      [] opcode = "greater-than-or-equal-to" -> "FCMP_OGE"

\* EmitFloatBinaryOp on a comparison opcode.
EmitFloatBinaryOp(opcode, lhs_value, rhs_value) ==
    EmitComparison(FloatComparisonPredicate(opcode), lhs_value, rhs_value)

\* The operands compared: zeros, denormals, values around 1, the largest
\* finite values, infinities and NaNs of both signs.
CompareOperands == OperandPatterns(F32ExponentBits, F32MantissaBits)

\* One floating-point comparison instruction on one pair of elements.
FloatCompare ==
    /\ pc = "idle"
    /\ \E opcode \in ComparisonOpcodes :
         \E lhs \in CompareOperands, rhs \in CompareOperands :
            ib' = [op |-> opcode, lhs |-> lhs, rhs |-> rhs,
                   is_signed |-> FALSE,
                   result |-> EmitFloatBinaryOp(opcode, lhs, rhs)]
    /\ pc' = "compared"
    /\ UNCHANGED <<rp, el, gen>>

NextCmp == FloatCompare

SpecCmp == InitInt /\ [][NextCmp]_vars

\* C18: when an operand is NaN, not-equal is true and the five other
\* comparisons are false; and for all operands not-equal is the negation
\* of equal.
C18_NaNComparisons ==
    pc = "compared" =>
       /\ (IsNaN(ib.lhs) \/ IsNaN(ib.rhs)) =>
             ib.result = (IF ib.op = "not-equal-to" THEN 1 ELSE 0)
       /\ ib.op = "not-equal-to" =>
             ib.result = 1 - EmitFloatBinaryOp("equal-to", ib.lhs, ib.rhs)
       /\ ib.op = "equal-to" =>
             ib.result = 1 - EmitFloatBinaryOp("not-equal-to", ib.lhs, ib.rhs)

\* C18 happens: a NaN has been compared for inequality with itself, and
\* the result is true.
C18_Witness ==
    /\ pc = "compared"
    /\ ib.op = "not-equal-to"
    /\ IsNaN(ib.lhs)
    /\ ib.lhs = ib.rhs
    /\ ib.result = 1

(***************************************************************************)
(* EmitF32ToBF16 and EmitBF16ToF32.  A BF16 value is its 16-bit pattern,   *)
(* a number below 2^16; the 32-bit pattern of Word(hi, lo) is              *)
(* hi * 2^23 + lo.                                                         *)
(***************************************************************************)
kBFloat16ExponentBits == 8
kBFloat16MantissaBits == 7

BF16Bits == 16
BF16Size == 2 ^ BF16Bits

\* The bits of the mantissa field below and within the upper 16 bits of
\* the pattern.
LowHalfSize == 2 ^ BF16Bits
HighMantissaSize == 2 ^ (F32MantissaBits - BF16Bits)

\* Mutant of EmitF32ToBF16: the value is truncated without being reduced.
EmitF32ToBF16_Unrounded(f32_value, noNaNs) ==
    (f32_value.hi * HighMantissaSize) + (f32_value.lo \div LowHalfSize)

\* CreateLShr(as_int32, 16) and CreateTrunc to 16 bits of the reduced value.
EmitF32ToBF16(f32_value, noNaNs) ==
    LET reduced_precision ==
            EmitReducePrecisionFloat(f32_value, kBFloat16ExponentBits,
                                     kBFloat16MantissaBits, noNaNs)
        shifted == (reduced_precision.hi * HighMantissaSize)
                      + (reduced_precision.lo \div LowHalfSize)
    IN  shifted % BF16Size

\* Mutant of EmitBF16ToF32: the zero-extended value is not shifted.
EmitBF16ToF32_NoShift(bf16_value) ==
    Word(bf16_value \div MantissaSize, bf16_value % MantissaSize)

\* CreateZExt to 32 bits and CreateShl by 16.
EmitBF16ToF32(bf16_value) ==
    Word(bf16_value \div HighMantissaSize,
         (bf16_value % HighMantissaSize) * LowHalfSize)

\* One value is truncated to BF16, ...
F32ToBF16 ==
    /\ pc = "idle"
    /\ \E noNaNs \in BOOLEAN :
         \E x \in OperandPatterns(kBFloat16ExponentBits,
                                  kBFloat16MantissaBits) :
            rp' = [x |-> x, exponent_bits |-> kBFloat16ExponentBits,
                   mantissa_bits |-> kBFloat16MantissaBits,
                   noNaNs |-> noNaNs, result |-> NoWord, again |-> NoWord,
                   bf16 |-> EmitF32ToBF16(x, noNaNs), bf16_again |-> 0]
    /\ pc' = "truncated"
    /\ UNCHANGED <<ib, el, gen>>

\* ... the BF16 value is widened, ...
BF16ToF32 ==
    /\ pc = "truncated"
    /\ rp' = [rp EXCEPT !.result = EmitBF16ToF32(rp.bf16)]
    /\ pc' = "widened"
    /\ UNCHANGED <<ib, el, gen>>

\* ... and the widened value is truncated again.
F32ToBF16Again ==
    /\ pc = "widened"
    /\ rp' = [rp EXCEPT !.bf16_again = EmitF32ToBF16(rp.result, rp.noNaNs)]
    /\ pc' = "truncated_again"
    /\ UNCHANGED <<ib, el, gen>>

NextBF16 == F32ToBF16 \/ BF16ToF32 \/ F32ToBF16Again

SpecBF16 == InitRP /\ [][NextBF16]_vars

\* The upper and the lower 16 bits of a 32-bit pattern.
Top16(w) == (w.hi * HighMantissaSize) + (w.lo \div LowHalfSize)
Low16(w) == w.lo % LowHalfSize

\* C19: the BF16 value of x is the upper 16 bits of ReducePrecision(x, 8,
\* 7), of which the lower 16 bits are zero unless x is NaN; the widened
\* pattern holds the 16 bits above 16 zero bits; and truncating the
\* widened value gives the same 16 bits again.
C19_PseudoBF16 ==
    /\ pc \in {"truncated", "widened", "truncated_again"} =>
          LET reduced == EmitReducePrecisionFloat(rp.x, 8, 7, rp.noNaNs)
          IN  /\ rp.bf16 \in 0..(BF16Size - 1)
              /\ rp.bf16 = Top16(reduced)
              /\ ~IsNaN(rp.x) => Low16(reduced) = 0
    /\ pc \in {"widened", "truncated_again"} =>
          /\ Top16(rp.result) = rp.bf16
          /\ Low16(rp.result) = 0
    /\ pc = "truncated_again" => rp.bf16_again = rp.bf16

\* C19 happens: a finite value whose truncated bits are above the half-way
\* point has been rounded up, widened and truncated again.
C19_Witness ==
    /\ pc = "truncated_again"
    /\ IsFinite(rp.x)
    /\ Low16(rp.x) > LowHalfSize \div 2
    /\ rp.bf16 = Top16(rp.x) + 1
    /\ rp.bf16_again = rp.bf16

(***************************************************************************)
(* EmitElementalDot on the dimension numbers of the instruction.  The      *)
(* emitter takes element 0 of each side's contracting dimensions and       *)
(* lhs_dims - 1 + rhs_dims - 1 components of dot_result_index without      *)
(* testing that they exist.  A read of an element that does not exist is   *)
(* undefined: the build either stops (Fatal) or goes on with what it read. *)
(***************************************************************************)
Fatal == -3

\* dim_numbers.lhs_contracting_dimensions(0), rhs_contracting_dimensions(0)
\* and dot_result_index[i]: element number index, or what the undefined
\* read yields.
ElementOrUndefined(elements, index, undefined) ==
    IF index < Len(elements) THEN elements[index + 1] ELSE undefined

EmitElementalDotOfDimensions(hlo, lhs, rhs, dot_result_index, undefined) ==
    LET lhs_contracting_dim ==
            ElementOrUndefined(hlo.lhs_contracting_dimensions, 0, undefined)
        rhs_contracting_dim ==
            ElementOrUndefined(hlo.rhs_contracting_dimensions, 0, undefined)
        components == Len(hlo.lhs_dims) - 1 + Len(hlo.rhs_dims) - 1
        \* component 0 gives the index type, also when no component is used
        index == [i \in 1..Max(components, 1) |->
                     ElementOrUndefined(dot_result_index, i - 1, undefined)]
    IN  IF Fatal \in {lhs_contracting_dim, rhs_contracting_dim}
              \cup {index[i] : i \in 1..Len(index)}
        THEN [status |-> "fatal", reads |-> <<>>, value |-> 0]
        ELSE IF lhs_contracting_dim >= Len(hlo.lhs_dims)
                   \/ rhs_contracting_dim >= Len(hlo.rhs_dims)
        THEN [status |-> "undefined", reads |-> <<>>, value |-> 0]
        ELSE EmitElementalDot(
                 [lhs_dims |-> hlo.lhs_dims, rhs_dims |-> hlo.rhs_dims,
                  lhs_contracting_dim |-> lhs_contracting_dim,
                  rhs_contracting_dim |-> rhs_contracting_dim,
                  element_type |-> hlo.element_type],
                 lhs, rhs, index)

\* What an undefined read yields: the build stops, or a number is read.
UndefinedReads == {Fatal, 0, 1}

\* The contracting dimensions of an operand of the given rank: none, one
\* or two.
ContractingDimensions(rank) ==
    {<<>>} \cup {<<d>> : d \in 0..(rank - 1)}
      \cup {c \in (0..(rank - 1)) \X (0..(rank - 1)) : c[1] # c[2]}

\* Integer dot instructions on operands of extents 2 and rank 1 or 2.
DotDimensionInstructions ==
    {[lhs_dims |-> l, rhs_dims |-> r, lhs_contracting_dimensions |-> lc,
      rhs_contracting_dimensions |-> rc, element_type |-> "integer"] :
        <<l, lc, r, rc>> \in
            UNION {{l} \X ContractingDimensions(Len(l))
                       \X {r} \X ContractingDimensions(Len(r)) :
                     <<l, r>> \in {<<2>>, <<2, 2>>} \X {<<2>>, <<2, 2>>}}}

\* The dimensions of an operand that are not contracted.
RECURSIVE Uncontracted(_, _, _)
Uncontracted(dims, contracting_dimensions, d) ==
    IF d >= Len(dims) THEN <<>>
    ELSE (IF \E c \in 1..Len(contracting_dimensions) :
                contracting_dimensions[c] = d
          THEN <<>> ELSE <<dims[d + 1]>>)
            \o Uncontracted(dims, contracting_dimensions, d + 1)

\* The shape of the instruction, whose coordinates the caller passes.
DotDimensionShape(hlo) ==
    Uncontracted(hlo.lhs_dims, hlo.lhs_contracting_dimensions, 0)
      \o Uncontracted(hlo.rhs_dims, hlo.rhs_contracting_dimensions, 0)

\* One dot instruction with any number of contracting dimensions,
\* evaluated at one coordinate of its output.
ElementalDotOfDimensions ==
    /\ pc = "idle"
    /\ \E hlo \in DotDimensionInstructions :
         \E index \in Box(DotDimensionShape(hlo)), undefined \in UndefinedReads :
            LET lhs == DotLiteral(hlo.lhs_dims, hlo.element_type, 1)
                rhs == DotLiteral(hlo.rhs_dims, hlo.element_type, 2)
            IN  el' = [op |-> "dot-dimensions", hlo |-> hlo,
                       start |-> <<undefined>>, index |-> index,
                       out |-> EmitElementalDotOfDimensions(hlo, lhs, rhs,
                                                            index, undefined)]
    /\ pc' = "el_done"
    /\ UNCHANGED <<rp, ib, gen>>

NextDotDimensions == ElementalDotOfDimensions

SpecDotDimensions == InitEl /\ [][NextDotDimensions]_vars

\* C21: a dot instruction that has not exactly one contracting dimension
\* on each side ends in a fatal assertion; no value is computed for it.
C21_DotDimensionAssertion ==
    (/\ el.op = "dot-dimensions"
     /\ \/ Len(el.hlo.lhs_contracting_dimensions) # 1
        \/ Len(el.hlo.rhs_contracting_dimensions) # 1)
    => el.out.status = "fatal"


(***************************************************************************)
(* The operand reads of the four structured emitters together: pad,        *)
(* concatenate and dynamic-slice with the inputs of SpecEl, and            *)
(* dynamic-update-slice with the inputs of SpecUpdate.                     *)
(***************************************************************************)
NextReads ==
    \/ ElementalPad
    \/ ElementalConcatenate
    \/ ElementalDynamicSlice
    \/ ElementalDynamicUpdateSlice

SpecReads == InitEl /\ [][NextReads]_vars

\* The shape of operand `operand` of the instruction: pad has the padded
\* array and the scalar padding value; concatenate's operands have their
\* own extent along concat_dim and the output's extent elsewhere; the
\* start-indices operand is a vector with one element per dimension.
OperandShape(op, hlo, operand) ==
    CASE op = "pad" ->
           IF operand = 0 THEN hlo.operand_dims ELSE <<>>
      [] op = "concatenate" ->
           [d \in 1..hlo.rank |->
               IF d = hlo.concat_dim + 1
               THEN hlo.operand_extents[operand + 1] ELSE MaxElems]
      [] op = "dynamic-slice" ->
           IF operand = 0 THEN hlo.operand_dims
           ELSE <<Len(hlo.operand_dims)>>
      [] op = "dynamic-update-slice" ->
           IF operand = 0 THEN hlo.operand_dims
           ELSE IF operand = 1 THEN hlo.update_dims
           ELSE <<Len(hlo.operand_dims)>>

\* C22: for pad, concatenate, dynamic-slice and dynamic-update-slice at a
\* coordinate of the output shape, every executed operand read has one
\* component per dimension of the operand it reads and every component is
\* at least 0 and below the operand's extent, for every start value
\* (negative, too large, truncated to the index width) and every padding
\* configuration.
C22_ReadsInBounds ==
    (pc = "el_done"
       /\ el.op \in {"pad", "concatenate", "dynamic-slice",
                     "dynamic-update-slice"})
    => \A r \in 1..Len(el.out.reads) :
          LET dims == OperandShape(el.op, el.hlo, el.out.reads[r].operand)
              index == el.out.reads[r].index
          IN  /\ Len(index) = Len(dims)
              /\ \A d \in 1..Len(dims) : index[d] \in 0..(dims[d] - 1)

\* A dynamic-slice whose start value does not fit the index type and is
\* above the largest valid start once truncated, read at its last
\* coordinate.
C22_Witness ==
    /\ pc = "el_done"
    /\ el.op = "dynamic-slice"
    /\ el.hlo.start_type.bits > IndexBits
    /\ \E d \in 1..Len(el.hlo.operand_dims) :
         /\ el.start[d] >= IndexSize
         /\ el.start[d] % IndexSize > el.hlo.operand_dims[d]
         /\ el.index[d] = el.hlo.dims[d] - 1
         /\ el.index[d] > 0
         /\ el.out.reads[Len(el.out.reads)].index[d]
              = el.hlo.operand_dims[d] - 1


\* The result of executing an LLVM integer division or remainder
\* instruction on its operands.
Execute(instruction) ==
    CASE instruction.opcode = "udiv" ->
           CreateUDiv(instruction.lhs, instruction.rhs)
      [] instruction.opcode = "sdiv" ->
           CreateSDiv(instruction.lhs, instruction.rhs)
      [] instruction.opcode = "urem" ->
           CreateURem(instruction.lhs, instruction.rhs)
      [] instruction.opcode = "srem" ->
           CreateSRem(instruction.lhs, instruction.rhs)

\* C23: the divide or remainder instruction executed for an integer divide
\* or remainder takes the original dividend; its divisor is 1 whenever the
\* original divisor is 0 or the operands are signed (INT_MIN, -1), and the
\* original divisor in every other case; so the instruction never executes
\* on a pair for which it is undefined.
C23_SafeDivisor ==
    (pc = "int_done" /\ ib.op \in {"divide", "remainder"})
    => LET unsafe ==
               \/ ib.rhs = 0
               \/ /\ ib.is_signed
                  /\ ToSigned(ib.lhs) = 0 - (IntSize \div 2)
                  /\ ToSigned(ib.rhs) = 0 - 1
       IN  /\ ib.instruction.opcode =
                (IF ib.is_signed THEN "s" ELSE "u")
                  \o (IF ib.op = "divide" THEN "div" ELSE "rem")
           /\ ib.instruction.lhs = ib.lhs
           /\ unsafe => ib.instruction.rhs = 1
           /\ ~unsafe => ib.instruction.rhs = ib.rhs
           /\ Execute(ib.instruction) # Trap

\* A signed division of INT_MIN by -1, executed as INT_MIN / 1.
C23_Witness ==
    /\ pc = "int_done"
    /\ ib.op = "divide"
    /\ ib.is_signed
    /\ ib.lhs = GetIntSMin
    /\ ib.rhs = GetMinusOne
    /\ ib.instruction = Instruction("sdiv", GetIntSMin, 1)


(***************************************************************************)
(* The divide and the remainder instruction of one pair of elements, as a  *)
(* graph that holds both over the same operands computes them.             *)
(***************************************************************************)
IntegerDivideAndRemainder ==
    /\ pc = "idle"
    /\ \E lhs \in IntPatterns, rhs \in IntPatterns, is_signed \in BOOLEAN :
          ib' = [op |-> "divide-and-remainder",
                 lhs |-> lhs, rhs |-> rhs, is_signed |-> is_signed,
                 quotient |->
                     EmitIntegerBinaryOp("divide", lhs, rhs, is_signed),
                 remainder |->
                     EmitIntegerBinaryOp("remainder", lhs, rhs, is_signed)]
    /\ pc' = "int_done"
    /\ UNCHANGED <<rp, el, gen>>

NextDivRem == IntegerDivideAndRemainder

SpecDivRem == InitInt /\ [][NextDivRem]_vars

\* C24: for all w-bit x and y, signed or unsigned, y = 0 and signed
\* (INT_MIN, -1) included, (x / y) * y + (x % y) is x modulo 2^w.
C24_DivRemIdentity ==
    (pc = "int_done" /\ ib.op = "divide-and-remainder")
    => /\ ib.quotient \in IntPatterns
       /\ ib.remainder \in IntPatterns
       /\ (ib.quotient * ib.rhs + ib.remainder) % IntSize = ib.lhs

\* The signed pair (INT_MIN, -1): quotient INT_MIN, remainder 0.
C24_Witness ==
    /\ pc = "int_done"
    /\ ib.op = "divide-and-remainder"
    /\ ib.is_signed
    /\ ib.lhs = GetIntSMin
    /\ ib.rhs = GetMinusOne
    /\ ib.quotient = GetIntSMin
    /\ ib.remainder = GetZero


(***************************************************************************)
(* ConvertValueForDistribution on its own: one uniform RNG instruction of  *)
(* each supported element type, every raw value of the type's raw width,   *)
(* and bounds a and b drawn from every pattern of a one-word integer       *)
(* type, from the patterns around zero, the sign bit and the largest       *)
(* value of a two-word integer type, and from small integers for the       *)
(* floating-point types.                                                   *)
(***************************************************************************)
UniformElementTypes == {"U32", "S32", "F16", "F32", "U64", "S64", "F64"}

IsSignedIntegerTy(elem_prim_ty) == elem_prim_ty \in {"S32", "S64"}

RawWords(elem_prim_ty) ==
    IF GetNumberOfElementsPerPhiloxRngSample(elem_prim_ty) = 2 THEN 2 ELSE 1

RawSize(elem_prim_ty) ==
    IF RawWords(elem_prim_ty) = 2 THEN DWordSize ELSE WordSize

UniformBounds(elem_prim_ty) ==
    IF IsFloatingPointTy(elem_prim_ty) THEN (0 - 2)..3
    ELSE IF RawWords(elem_prim_ty) = 1 THEN 0..(WordSize - 1)
    ELSE {p \in 0..(DWordSize - 1) :
             \/ p \in {0, 1, 2, DWordSize - 2, DWordSize - 1}
             \/ p \in ((DWordSize \div 2) - 2)..((DWordSize \div 2) + 1)}

\* The number a bound of an instruction of the element type stands for.
BoundValue(p, elem_prim_ty) ==
    IF IsSignedIntegerTy(elem_prim_ty)
    THEN (IF p >= RawSize(elem_prim_ty) \div 2
          THEN p - RawSize(elem_prim_ty) ELSE p)
    ELSE p

ConvertedValueForDistribution ==
    /\ pc = "idle"
    /\ \E elem_prim_ty \in UniformElementTypes :
         \E a \in UniformBounds(elem_prim_ty),
            b \in UniformBounds(elem_prim_ty),
            raw_value \in 0..(RawSize(elem_prim_ty) - 1) :
            LET hlo == [element_type |-> elem_prim_ty,
                        random_distribution |-> "RNG_UNIFORM"]
            IN  gen' = [op |-> "convert", hlo |-> hlo, a |-> a, b |-> b,
                        raw_value |-> raw_value,
                        out |-> ConvertValueForDistribution(hlo, Ok(a), Ok(b),
                                    raw_value, RawWords(elem_prim_ty))]
    /\ pc' = "converted"
    /\ UNCHANGED <<rp, ib, el>>

NextUniform == ConvertedValueForDistribution

SpecUniform == InitInt /\ [][NextUniform]_vars

\* C25: for a floating-point element type and bounds a < b, the uniform
\* result (b - a) * u + a, with u the raw word converted to floating point
\* and divided by 2^32 (one raw word) or 2^64 (two), is at least a and
\* below b: u is in [0, 1) for every raw word, so the result never equals b.
C25_UniformBelowUpperBound ==
    (/\ pc = "converted"
     /\ IsFloatingPointTy(gen.hlo.element_type)
     /\ gen.a < gen.b)
    => /\ IsOk(gen.out)
       /\ gen.a * gen.out.value.den <= gen.out.value.num
       /\ gen.out.value.num < gen.b * gen.out.value.den


\* C27: for an integer element type and bounds a < b (as numbers of the
\* type), the uniform result is a + (raw mod (b - a)), with the raw value
\* and the range b - a taken as unsigned numbers of the type's width and
\* the sum wrapped to that width, and it lies in [a, b).
C27_IntegerUniform ==
    (/\ pc = "converted"
     /\ ~IsFloatingPointTy(gen.hlo.element_type)
     /\ BoundValue(gen.a, gen.hlo.element_type)
          < BoundValue(gen.b, gen.hlo.element_type))
    => LET size == RawSize(gen.hlo.element_type)
           range == (gen.b - gen.a) % size
           result == BoundValue(gen.out.value, gen.hlo.element_type)
       IN  /\ IsOk(gen.out)
           /\ gen.out.value = (gen.a + (gen.raw_value % range)) % size
           /\ BoundValue(gen.a, gen.hlo.element_type) <= result
           /\ result < BoundValue(gen.b, gen.hlo.element_type)

\* A signed instruction whose range b - a does not fit the signed type,
\* with a raw value above the range and a result above zero.
C27_Witness ==
    /\ pc = "converted"
    /\ gen.hlo.element_type = "S32"
    /\ BoundValue(gen.a, "S32") < 0
    /\ BoundValue(gen.b, "S32") - BoundValue(gen.a, "S32") >= WordSize \div 2
    /\ gen.raw_value > (gen.b - gen.a) % WordSize
    /\ IsOk(gen.out)
    /\ BoundValue(gen.out.value, "S32") > 0


(***************************************************************************)
(* EmitExpm1.  The operand x is a multiple of a quarter of 1e-6, and a     *)
(* floating-point value is the whole number of units it holds, the unit    *)
(* being half the square of that step: x = n steps is n * UnitsPerStep     *)
(* units and x * x / 2 is n * n units, so the sums and the halving of the  *)
(* small branch are exact.  exp is an intrinsic, and the large branch is   *)
(* kept as the term exp(x) - 1.                                            *)
(***************************************************************************)
UnitsPerStep == 8 * (10 ^ 6)

\* 1e-5, in units: forty steps.
kExponentIsSmallThreshold == 40 * UnitsPerStep

FloatConstant(text) == [constant |-> text]
FloatUnits(units) == [units |-> units]

\* CreateFMul(v, half)
CreateFMulHalf(v) == v \div 2
\* x * x / 2 of a whole number of steps.
HalfSquare(v) == (v \div UnitsPerStep) * (v \div UnitsPerStep)

EmitExpm1(prim_type, value) ==
    LET x == value
        one == FloatConstant("1.0")
        exp_x == EmitExp(prim_type, FloatUnits(value))
    IN  IF ~IsOk(exp_x) THEN exp_x
        ELSE LET for_large_x == Emitted("fsub", <<exp_x.value, one>>)
                 x_squared == CreateFAdd(x, x)
                 x_squared_over_two == CreateFMulHalf(x_squared)
                 for_small_x == CreateFAdd(x, x_squared_over_two)
                 abs_x == Abs(value)
                 x_is_small == abs_x < kExponentIsSmallThreshold
             IN  Ok(Select(x_is_small, FloatUnits(for_small_x), for_large_x))

\* The operands: up to MaxSteps steps either side of zero, which is past
\* the threshold.
MaxSteps == 48

Expm1Types == {"F16", "F32", "F64"}

\* One exponential-minus-one instruction on one element.
FloatExpm1 ==
    /\ pc = "idle"
    /\ \E prim_type \in Expm1Types, n \in (0 - MaxSteps)..MaxSteps :
          gen' = [op |-> "exponential-minus-one", prim_type |-> prim_type,
                  x |-> n * UnitsPerStep,
                  out |-> EmitExpm1(prim_type, n * UnitsPerStep)]
    /\ pc' = "expm1_done"
    /\ UNCHANGED <<rp, ib, el>>

NextExpm1 == FloatExpm1

SpecExpm1 == InitInt /\ [][NextExpm1]_vars

\* C26: expm1 of x is the two-term Taylor expansion x + x*x/2 for every x
\* with |x| below the threshold 1e-5, and exp(x) - 1 for every other x.
C26_Expm1 ==
    pc = "expm1_done"
    => /\ IsOk(gen.out)
       /\ Abs(gen.x) < kExponentIsSmallThreshold
            => gen.out.value = FloatUnits(gen.x + HalfSquare(gen.x))
       /\ Abs(gen.x) >= kExponentIsSmallThreshold
            => gen.out.value =
                 Emitted("fsub", <<Emitted("exponential", <<FloatUnits(gen.x)>>),
                                   FloatConstant("1.0")>>)


\* The exponent and the mantissa field of a 16-bit BF16 pattern.
BF16ExponentOf(v) == (v \div (2 ^ kBFloat16MantissaBits)) % ExponentSize
BF16MantissaOf(v) == v % (2 ^ kBFloat16MantissaBits)

\* C28: with NaN detection enabled, the BF16 pattern of every NaN is a NaN
\* pattern: exponent field all ones and a non-zero 7-bit mantissa field,
\* also for a NaN whose payload lies in the low 16 bits only.
C28_NaNStaysNaN ==
    (pc = "truncated" /\ ~rp.noNaNs /\ IsNaN(rp.x))
    => /\ BF16ExponentOf(rp.bf16) = ExponentSize - 1
       /\ BF16MantissaOf(rp.bf16) # 0


\* C29: the generator of a complex log, log-plus-one or power, invoked on
\* any operand values, reports the Unimplemented failure of atan2: the
\* angle is obtained from EmitAtan2, and its failure is returned before a
\* result is composed.
C29_ComplexAngleUnimplemented ==
    \A c \in 1..Len(gen.calls) :
        LET generator == gen.generators[gen.calls[c].generator]
        IN  (/\ generator.hlo.opcode \in {"log", "log-plus-one", "power"}
             /\ IsComplexType(generator.hlo.operand_type)
             /\ \A k \in 1..Len(generator.operand_to_generator) :
                   IsOk(generator.operand_to_generator[k]))
            => gen.calls[c].result = Unimplemented(<<"atan2">>)

\* A complex power whose operand generators both succeed has been invoked.
C29_Witness ==
    /\ Len(gen.generators) = 1
    /\ Len(gen.calls) = 1
    /\ gen.generators[1].hlo.opcode = "power"
    /\ gen.generators[1].hlo.operand_type = "C64"
    /\ \A k \in 1..2 : IsOk(gen.generators[1].operand_to_generator[k])
    /\ ~IsOk(gen.calls[1].result)
    /\ gen.calls[1].result.error = "Unimplemented"


(***************************************************************************)
(* GlobalRandomValue under concurrent callers.  Each thread makes the      *)
(* generator of one RNG instruction for a module configured with one of    *)
(* the ConfiguredSeeds; with the seed 0 it calls GlobalRandomValue, which  *)
(* takes the mutex, steps the generator (a read of its state and a write   *)
(* of the next state, which yields the output) and releases the mutex when *)
(* it returns.  The generator is seeded when the process starts; its state *)
(* is the number of outputs it has produced.                               *)
(***************************************************************************)
MaxThreads == 3

Threads == 1..MaxThreads
NoThread == 0

\* Mutant of MutexLockAvailable: the lock is taken whoever holds it.
MutexLockAvailable_Always(mu) == TRUE

\* tensorflow::mutex_lock l(*mu) goes on when no thread holds mu.
MutexLockAvailable(mu) == mu = NoThread

InitThreads ==
    /\ pc = "idle"
    /\ rp = NoReducePrecision
    /\ ib = NoIntegerOp
    /\ el = NoElemental
    /\ gen = [mu |-> NoThread, rng |-> 0, acquired |-> 0,
              threads |-> [t \in Threads |->
                              [pc |-> "start", seed |-> 0, order |-> 0,
                               state |-> 0, global_random_number |-> 0]],
              draws |-> <<>>]

\* hlo_module_config_.seed() != 0 ? hlo_module_config_.seed() : ...
SeedConfigured ==
    /\ \E t \in Threads, seed \in ConfiguredSeeds \ {0} :
          /\ gen.threads[t].pc = "start"
          /\ gen' = [gen EXCEPT !.threads[t].pc = "made",
                                !.threads[t].seed = seed,
                                !.threads[t].global_random_number = seed]
    /\ pc' = "threads"
    /\ UNCHANGED <<rp, ib, el>>

\* ... : GlobalRandomValue(): the call is entered.
GlobalRandomValueCalled ==
    /\ \E t \in Threads :
          /\ gen.threads[t].pc = "start"
          /\ gen' = [gen EXCEPT !.threads[t].pc = "lock"]
    /\ pc' = "threads"
    /\ UNCHANGED <<rp, ib, el>>

MutexLock ==
    /\ \E t \in Threads :
          /\ gen.threads[t].pc = "lock"
          /\ MutexLockAvailable(gen.mu)
          /\ gen' = [gen EXCEPT !.mu = t,
                                !.acquired = @ + 1,
                                !.threads[t].order = gen.acquired + 1,
                                !.threads[t].pc = "read"]
    /\ pc' = "threads"
    /\ UNCHANGED <<rp, ib, el>>

\* rng(): the state of the generator is read ...
RngStateRead ==
    /\ \E t \in Threads :
          /\ gen.threads[t].pc = "read"
          /\ gen' = [gen EXCEPT !.threads[t].state = gen.rng,
                                !.threads[t].pc = "write"]
    /\ pc' = "threads"
    /\ UNCHANGED <<rp, ib, el>>

\* ... and the next state is written; the output is that of the state read.
RngStateWritten ==
    /\ \E t \in Threads :
          /\ gen.threads[t].pc = "write"
          /\ gen' = [gen EXCEPT
                        !.rng = gen.threads[t].state + 1,
                        !.threads[t].global_random_number =
                            GlobalRandomValue(gen.threads[t].state),
                        !.threads[t].pc = "return"]
    /\ pc' = "threads"
    /\ UNCHANGED <<rp, ib, el>>

\* return: the mutex_lock is destroyed and the caller has its value.
GlobalRandomValueReturned ==
    /\ \E t \in Threads :
          /\ gen.threads[t].pc = "return"
          /\ gen' = [gen EXCEPT
                        !.mu = IF @ = t THEN NoThread ELSE @,
                        !.draws = Append(@,
                            [thread |-> t, order |-> gen.threads[t].order,
                             value |-> gen.threads[t].global_random_number]),
                        !.threads[t].pc = "made"]
    /\ pc' = "threads"
    /\ UNCHANGED <<rp, ib, el>>

NextThreads ==
    \/ SeedConfigured
    \/ GlobalRandomValueCalled
    \/ MutexLock
    \/ RngStateRead
    \/ RngStateWritten
    \/ GlobalRandomValueReturned

SpecThreads == InitThreads /\ [][NextThreads]_vars

\* C30: at most one thread is inside the locked part of GlobalRandomValue;
\* the call that took the lock k-th returns the k-th output of the one
\* generator, so the calls that have returned hold different outputs and
\* the outputs before the latest are all taken or being taken; and a
\* thread draws only when its generator is made with the configured seed 0.
C30_ExclusiveDraws ==
    pc = "threads"
    => /\ \A t, u \in Threads :
             (/\ gen.threads[t].pc \in {"read", "write", "return"}
              /\ gen.threads[u].pc \in {"read", "write", "return"}) => t = u
       /\ \A i \in 1..Len(gen.draws) :
             /\ gen.draws[i].value = GlobalRandomValue(gen.draws[i].order - 1)
             /\ gen.threads[gen.draws[i].thread].seed = 0
             /\ \A j \in 1..Len(gen.draws) :
                   gen.draws[i].value = gen.draws[j].value => i = j
       /\ {gen.threads[t].order : t \in Threads} \ {0} = 1..gen.acquired
       /\ gen.rng <= gen.acquired
       /\ gen.rng >= Len(gen.draws)
       /\ \A t \in Threads :
             gen.threads[t].seed # 0
             => /\ gen.threads[t].order = 0
                /\ gen.threads[t].pc = "made"

\* Every thread but one has drawn, in an order other than the order of
\* the threads, while the last one was made with a configured seed.
C30_Witness ==
    /\ pc = "threads"
    /\ Len(gen.draws) = MaxThreads - 1
    /\ gen.draws[1].thread > gen.draws[2].thread
    /\ gen.draws[2].value = GlobalRandomValue(1)
    /\ \E t \in Threads : gen.threads[t].seed # 0

====
